---- MODULE Spec2Model ----
(***************************************************************************)
(* Versus: an upgradeable three-contract protocol on Concordium.           *)
(*   Versus-Proxy          (src/proxy/src/lib.rs)                          *)
(*   Versus-Implementation (src/implementation/src/lib.rs)                 *)
(*   Versus-State          (src/state/src/lib.rs)                          *)
(* Every receive function is an operator from (world, sender, parameter)   *)
(* to a result; a top-level transaction is one action that applies the     *)
(* operator of the invoked entry point, nested contract calls included,    *)
(* and commits the world only when the whole chain succeeded.              *)
(***************************************************************************)
EXTENDS Integers, Sequences, FiniteSets, TLC

VARIABLES proxy, impl, state, last, scn

vars == <<proxy, impl, state, last, scn>>

(***************************************************************************)
(* Addresses.  Accounts send transactions; contract instances are the      *)
(* proxy P, the state contract S, two deployed implementation instances    *)
(* I1 (the one the proxy is constructed with) and I2 (an upgrade target),  *)
(* and a foreign contract X that exposes no entry point.                   *)
(***************************************************************************)
Accounts == {"a1", "a2"}

P == "P"

S == "S"

X == "X"

ImplAddrs == {"I1", "I2"}

ContractAddrs == {P, S, X} \cup ImplAddrs

Addresses == Accounts \cup ContractAddrs

(***************************************************************************)
(* Serialized payloads are sequences of tokens: an address is one token,   *)
(* an enum variant or a bool is the token of its ordinal.                  *)
(***************************************************************************)
OrdTok == <<"0", "1", "2", "3", "4", "5", "6", "7", "8", "9", "10", "11">>

Tok(n) == OrdTok[n + 1]

\* Address::matches_contract: the sender is a contract and it is this one.
matches_contract(sender, addr) == sender \in ContractAddrs /\ sender = addr

\* ParamCursor::get() for Address / ContractAddress: reads the leading token.
GetAddress(param) ==
    IF Len(param) >= 1 /\ param[1] \in Addresses
    THEN [ok |-> TRUE, v |-> param[1]]
    ELSE [ok |-> FALSE, v |-> ""]

GetContractAddress(param, i) ==
    IF Len(param) >= i /\ param[i] \in ContractAddrs
    THEN [ok |-> TRUE, v |-> param[i]]
    ELSE [ok |-> FALSE, v |-> ""]

\* bool: byte 0 or 1, anything else is a ParseError.
GetBool(param) ==
    IF Len(param) >= 1 /\ param[1] \in {"0", "1"}
    THEN [ok |-> TRUE, v |-> (param[1] = "1")]
    ELSE [ok |-> FALSE, v |-> FALSE]

BoolTok(b) == IF b THEN "1" ELSE "0"

(***************************************************************************)
(* Results of an invocation.  kind is "Success" or the variant of          *)
(* CallContractError the caller observes; a LogicReject carries the        *)
(* callee's reason code and return value.  w is the world after the call   *)
(* (the world before it when the call failed: the host rolls back),        *)
(* events the log records appended, calls the contract calls made.         *)
(***************************************************************************)
Ok(w, rv, events, calls) ==
    [ok |-> TRUE, kind |-> "Success", reason |-> 0, rv |-> rv, w |-> w,
     events |-> events, calls |-> calls]

\* derive(Reject): variant number k (from 0) rejects with code -(k+1) and
\* the serialized error as return value.
Reject(w, code, calls) ==
    [ok |-> FALSE, kind |-> "LogicReject", reason |-> code,
     rv |-> <<Tok((0 - code) - 1)>>, w |-> w, events |-> <<>>, calls |-> calls]

\* A rejection with a raw code and return value.
RejectRaw(w, code, rv, calls) ==
    [ok |-> FALSE, kind |-> "LogicReject", reason |-> code, rv |-> rv, w |-> w,
     events |-> <<>>, calls |-> calls]

\* A failure raised by the host before any contract code ran.
HostFail(w, kind, calls) ==
    [ok |-> FALSE, kind |-> kind, reason |-> 0, rv |-> <<>>, w |-> w,
     events |-> <<>>, calls |-> calls]

\* InitResult: the state of the new instance and the events its constructor
\* logged, or the rejection.  A constructor has no host to call through.
InitOk(st, events) ==
    [ok |-> TRUE, reason |-> 0, state |-> st, events |-> events, calls |-> <<>>]

InitReject(code) ==
    [ok |-> FALSE, reason |-> code, state |-> <<>>, events |-> <<>>, calls |-> <<>>]

I32Min == (0 - 2147483647) - 1

\* concordium-std's reject code of a receive function that is not payable
\* and is sent a non-zero amount.
NotPayableCode == I32Min + 12

Call(from, to, entry, param, amount) ==
    [from |-> from, to |-> to, entry |-> entry, param |-> param, amount |-> amount]

\* let v = ...; then the rest of the function: the value is computed once.
Bind(v, rest(_)) == rest(v)

\* The result of a call, with the call itself recorded ahead of the calls
\* the callee made.
Called(c, r) == [r EXCEPT !.calls = <<c>> \o r.calls]

(***************************************************************************)
(* Versus-State                                                            *)
(***************************************************************************)
S_ParseParamsError == -1

S_AlreadyInitialized == -4

S_UnInitialized == -5

S_OnlyImplementation == -6

S_OnlyProxy == -7

UnInitialized == [init |-> FALSE, a |-> "", b |-> ""]

\* ProtocolAddressesState::Initialized {proxy_address, implementation_address}
\* and ProtocolAddressesImplementation::Initialized {proxy_address, state_address}
Initialized(a, b) == [init |-> TRUE, a |-> a, b |-> b]

NoRecord == [state |-> "None", result |-> "None"]

PlayerData(s, r) == [state |-> s, result |-> r]

\* State::new
State_new ==
    [protocol_addresses |-> UnInitialized,
     player_data |-> [p \in Addresses |-> NoRecord],
     paused |-> FALSE]

\* The constructor of Versus-State: it reads no parameter.
contract_state_init(origin, param) == InitOk(State_new, <<>>)

\* enum PlayerState of the state contract, by ordinal
StatePlayerState == <<"Active", "Suspended">>

\* enum BattleResult (the same in both contracts), by ordinal
BattleResult == <<"NoResult", "Win", "Loss">>

Ordinal(enum, v) == (CHOOSE i \in 1..Len(enum) : enum[i] = v) - 1

GetEnum(enum, param, i) ==
    IF Len(param) >= i /\ \E k \in 1..Len(enum) : param[i] = Tok(k - 1)
    THEN [ok |-> TRUE, v |-> enum[CHOOSE k \in 1..Len(enum) : param[i] = Tok(k - 1)]]
    ELSE [ok |-> FALSE, v |-> ""]

\* Mutant: initialize without the one-shot guard.
contract_state_initialize_unguarded(w, sender, param) ==
    LET pa == GetContractAddress(param, 1)
        ia == GetContractAddress(param, 2)
    IN IF ~(pa.ok /\ ia.ok)
       THEN Reject(w, S_ParseParamsError, <<>>)
       ELSE Ok([w EXCEPT !.state.protocol_addresses = Initialized(pa.v, ia.v)],
               <<>>, <<>>, <<>>)

\* Mutant: initialize accepts only the Proxy it is asked to record as sender.
contract_state_initialize_sender_checked(w, sender, param) ==
    IF w.state.protocol_addresses # UnInitialized
    THEN Reject(w, S_AlreadyInitialized, <<>>)
    ELSE LET pa == GetContractAddress(param, 1)
             ia == GetContractAddress(param, 2)
         IN IF ~(pa.ok /\ ia.ok)
            THEN Reject(w, S_ParseParamsError, <<>>)
            ELSE IF ~matches_contract(sender, pa.v) THEN Reject(w, S_OnlyProxy, <<>>)
            ELSE Ok([w EXCEPT !.state.protocol_addresses = Initialized(pa.v, ia.v)],
                    <<>>, <<>>, <<>>)

contract_state_initialize(w, sender, param) ==
    IF w.state.protocol_addresses # UnInitialized
    THEN Reject(w, S_AlreadyInitialized, <<>>)
    ELSE LET pa == GetContractAddress(param, 1)
             ia == GetContractAddress(param, 2)
         IN IF ~(pa.ok /\ ia.ok)
            THEN Reject(w, S_ParseParamsError, <<>>)
            ELSE Ok([w EXCEPT !.state.protocol_addresses = Initialized(pa.v, ia.v)],
                    <<>>, <<>>, <<>>)

\* Mutant: the sender check of the state contract passes for every sender.
state_only_implementation_any(implementation_address, sender) == TRUE

\* Mutant: the sender check of the state contract passes for every contract.
state_only_implementation_any_contract(implementation_address, sender) ==
    sender \in ContractAddrs

state_only_implementation(implementation_address, sender) ==
    matches_contract(sender, implementation_address)

\* Mutant: the Proxy check of the state contract passes for every sender.
state_only_proxy_any(proxy_address, sender) == TRUE

state_only_proxy(proxy_address, sender) ==
    matches_contract(sender, proxy_address)

get_protocol_addresses_from_state(w) == w.state.protocol_addresses

\* Mutant: recording a new implementation address starts the player records
\* and the pause flag afresh.
contract_state_set_implementation_address_wipes(w, sender, param) ==
    LET pa == get_protocol_addresses_from_state(w)
        ia == GetContractAddress(param, 1)
    IN IF ~pa.init THEN Reject(w, S_UnInitialized, <<>>)
       ELSE IF ~state_only_proxy(pa.a, sender) THEN Reject(w, S_OnlyProxy, <<>>)
       ELSE IF ~ia.ok THEN Reject(w, S_ParseParamsError, <<>>)
       ELSE Ok([w EXCEPT !.state = [State_new EXCEPT
                                       !.protocol_addresses = Initialized(pa.a, ia.v)]],
               <<>>, <<>>, <<>>)

\* Mutant: an undecodable parameter clears the protocol addresses instead
\* of failing the call.
contract_state_set_implementation_address_reset(w, sender, param) ==
    LET pa == w.state.protocol_addresses
        ia == GetContractAddress(param, 1)
    IN IF ~pa.init THEN Reject(w, S_UnInitialized, <<>>)
       ELSE IF ~matches_contract(sender, pa.a) THEN Reject(w, S_OnlyProxy, <<>>)
       ELSE IF ~ia.ok
            THEN Ok([w EXCEPT !.state.protocol_addresses = UnInitialized],
                    <<>>, <<>>, <<>>)
       ELSE Ok([w EXCEPT !.state.protocol_addresses = Initialized(pa.a, ia.v)],
               <<>>, <<>>, <<>>)

\* Mutant: setImplementationAddress decodes its parameter before its checks.
contract_state_set_implementation_address_parse_first(w, sender, param) ==
    LET pa == get_protocol_addresses_from_state(w)
        ia == GetContractAddress(param, 1)
    IN IF ~ia.ok THEN Reject(w, S_ParseParamsError, <<>>)
       ELSE IF ~pa.init THEN Reject(w, S_UnInitialized, <<>>)
       ELSE IF ~state_only_proxy(pa.a, sender) THEN Reject(w, S_OnlyProxy, <<>>)
       ELSE Ok([w EXCEPT !.state.protocol_addresses = Initialized(pa.a, ia.v)],
               <<>>, <<>>, <<>>)

contract_state_set_implementation_address(w, sender, param) ==
    LET pa == get_protocol_addresses_from_state(w)
        ia == GetContractAddress(param, 1)
    IN IF ~pa.init THEN Reject(w, S_UnInitialized, <<>>)
       ELSE IF ~state_only_proxy(pa.a, sender) THEN Reject(w, S_OnlyProxy, <<>>)
       ELSE IF ~ia.ok THEN Reject(w, S_ParseParamsError, <<>>)
       ELSE Ok([w EXCEPT !.state.protocol_addresses = Initialized(pa.a, ia.v)],
               <<>>, <<>>, <<>>)

\* Mutant: setPaused without the initialization check.
contract_state_set_paused_unchecked(w, sender, param) ==
    LET pa == w.state.protocol_addresses
        b == GetBool(param)
    IN IF ~matches_contract(sender, pa.b) THEN Reject(w, S_OnlyImplementation, <<>>)
       ELSE IF ~b.ok THEN Reject(w, S_ParseParamsError, <<>>)
       ELSE Ok([w EXCEPT !.state.paused = b.v], <<>>, <<>>, <<>>)

contract_state_set_paused(w, sender, param) ==
    LET pa == get_protocol_addresses_from_state(w)
        b == GetBool(param)
    IN IF ~pa.init THEN Reject(w, S_UnInitialized, <<>>)
       ELSE IF ~state_only_implementation(pa.b, sender)
            THEN Reject(w, S_OnlyImplementation, <<>>)
       ELSE IF ~b.ok THEN Reject(w, S_ParseParamsError, <<>>)
       ELSE Ok([w EXCEPT !.state.paused = b.v], <<>>, <<>>, <<>>)

\* Mutant: a player without a record gets one in an otherwise empty map.
or_insert_default_alone(player_data, player) ==
    IF player_data[player] = NoRecord
    THEN [p \in Addresses |->
              IF p = player THEN PlayerData("Active", "NoResult") ELSE NoRecord]
    ELSE player_data

\* player_data.entry(player).or_insert_with(|| PlayerData {Active, NoResult})
or_insert_default(player_data, player) ==
    IF player_data[player] = NoRecord
    THEN [player_data EXCEPT ![player] = PlayerData("Active", "NoResult")]
    ELSE player_data

contract_state_update_player_state(w, sender, param) ==
    LET pa == get_protocol_addresses_from_state(w)
        player == GetAddress(param)
        st == GetEnum(StatePlayerState, param, 2)
    IN IF ~pa.init THEN Reject(w, S_UnInitialized, <<>>)
       ELSE IF ~state_only_implementation(pa.b, sender)
            THEN Reject(w, S_OnlyImplementation, <<>>)
       ELSE IF ~(player.ok /\ st.ok) THEN Reject(w, S_ParseParamsError, <<>>)
       ELSE Ok([w EXCEPT !.state.player_data =
                   [or_insert_default(w.state.player_data, player.v)
                        EXCEPT ![player.v].state = st.v]],
               <<>>, <<>>, <<>>)

\* Mutant: updateBattleResult writes a whole new record for the player.
contract_state_update_battle_result_resets(w, sender, param) ==
    LET pa == get_protocol_addresses_from_state(w)
        player == GetAddress(param)
        res == GetEnum(BattleResult, param, 2)
    IN IF ~pa.init THEN Reject(w, S_UnInitialized, <<>>)
       ELSE IF ~state_only_implementation(pa.b, sender)
            THEN Reject(w, S_OnlyImplementation, <<>>)
       ELSE IF ~(player.ok /\ res.ok) THEN Reject(w, S_ParseParamsError, <<>>)
       ELSE Ok([w EXCEPT !.state.player_data[player.v] = PlayerData("Active", res.v)],
               <<>>, <<>>, <<>>)

contract_state_update_battle_result(w, sender, param) ==
    LET pa == get_protocol_addresses_from_state(w)
        player == GetAddress(param)
        res == GetEnum(BattleResult, param, 2)
    IN IF ~pa.init THEN Reject(w, S_UnInitialized, <<>>)
       ELSE IF ~state_only_implementation(pa.b, sender)
            THEN Reject(w, S_OnlyImplementation, <<>>)
       ELSE IF ~(player.ok /\ res.ok) THEN Reject(w, S_ParseParamsError, <<>>)
       ELSE Ok([w EXCEPT !.state.player_data =
                   [or_insert_default(w.state.player_data, player.v)
                        EXCEPT ![player.v].result = res.v]],
               <<>>, <<>>, <<>>)

\* the state contract's addPlayer
contract_state_set_player_data(w, sender, param) ==
    LET pa == get_protocol_addresses_from_state(w)
        player == GetAddress(param)
    IN IF ~pa.init THEN Reject(w, S_UnInitialized, <<>>)
       ELSE IF ~state_only_implementation(pa.b, sender)
            THEN Reject(w, S_OnlyImplementation, <<>>)
       ELSE IF ~player.ok THEN Reject(w, S_ParseParamsError, <<>>)
       ELSE Ok([w EXCEPT !.state.player_data =
                   or_insert_default(w.state.player_data, player.v)],
               <<>>, <<>>, <<>>)

contract_state_get_paused(w, sender, param) ==
    Ok(w, <<BoolTok(w.state.paused)>>, <<>>, <<>>)

\* The getter reads the stored record of the player; it holds no value for a
\* player without a record, and the receive function cannot insert one (it
\* is not mutable), so the call traps there.
contract_state_get_player_data(w, sender, param) ==
    LET player == GetAddress(param)
    IN IF ~player.ok THEN Reject(w, S_ParseParamsError, <<>>)
       ELSE IF w.state.player_data[player.v] = NoRecord
            THEN HostFail(w, "Trap", <<>>)
       ELSE Ok(w, <<Tok(Ordinal(StatePlayerState, w.state.player_data[player.v].state)),
                    Tok(Ordinal(BattleResult, w.state.player_data[player.v].result))>>,
               <<>>, <<>>)

contract_state_view(w, sender, param) ==
    LET pa == get_protocol_addresses_from_state(w)
    IN IF ~pa.init THEN Reject(w, S_UnInitialized, <<>>)
       ELSE Ok(w, <<pa.a, pa.b, BoolTok(w.state.paused)>>, <<>>, <<>>)

StateEntries ==
    {"initialize", "setImplementationAddress", "setPaused", "updatePlayerState",
     "updateBattleResult", "addPlayer", "getPaused", "getPlayerData", "view"}

\* The entry points of Versus-State; none is payable.
StateReceive(w, sender, entry, param, amount) ==
    IF entry \notin StateEntries THEN HostFail(w, "MissingEntrypoint", <<>>)
    ELSE IF amount # 0 THEN RejectRaw(w, NotPayableCode, <<>>, <<>>)
    ELSE CASE entry = "initialize" -> contract_state_initialize(w, sender, param)
           [] entry = "setImplementationAddress" ->
                  contract_state_set_implementation_address(w, sender, param)
           [] entry = "setPaused" -> contract_state_set_paused(w, sender, param)
           [] entry = "updatePlayerState" ->
                  contract_state_update_player_state(w, sender, param)
           [] entry = "updateBattleResult" ->
                  contract_state_update_battle_result(w, sender, param)
           [] entry = "addPlayer" -> contract_state_set_player_data(w, sender, param)
           [] entry = "getPaused" -> contract_state_get_paused(w, sender, param)
           [] entry = "getPlayerData" -> contract_state_get_player_data(w, sender, param)
           [] entry = "view" -> contract_state_view(w, sender, param)

(***************************************************************************)
(* Versus-Implementation                                                   *)
(***************************************************************************)
I_ParseParamsError == -1

I_InvokeContractError == -4

I_ContractPaused == -5

I_AlreadyInitialized == -6

I_UnInitialized == -7

I_OnlyProxy == -8

I_OnlyAdmin == -10

I_AlreadyAdded == -11

\* enum PlayerState of the implementation contract, by ordinal
ImplPlayerState == <<"NotAdded", "Active", "Suspended">>

\* StateImplementation::new
StateImplementation_new(admin) ==
    [admin |-> admin, protocol_addresses |-> UnInitialized]

\* host.invoke_contract / invoke_contract_read_only from an implementation
\* instance: the callee is the state contract, or a contract without the
\* entry point (initialize records S or X as state_address).
InvokeFromImpl(w, self, target, entry, param, amount) ==
    IF target = S
    THEN Called(Call(self, target, entry, param, amount),
                StateReceive(w, self, entry, param, amount))
    ELSE HostFail(w, "MissingEntrypoint", <<Call(self, target, entry, param, amount)>>)

\* VersusEvent::NewAdmin, serialized
NewAdminEvent(by, new_admin) == [by |-> by, data |-> <<"NewAdmin", new_admin>>]

\* The constructor of Versus-Implementation: it reads no parameter and logs
\* the deploying account as the new admin.
contract_init(self, origin, param) ==
    InitOk(StateImplementation_new(origin), <<NewAdminEvent(self, origin)>>)

contract_initialize(w, self, sender, param) ==
    IF w.impl[self].protocol_addresses # UnInitialized
    THEN Reject(w, I_AlreadyInitialized, <<>>)
    ELSE LET pa == GetContractAddress(param, 1)
             sa == GetContractAddress(param, 2)
         IN IF ~(pa.ok /\ sa.ok)
            THEN Reject(w, I_ParseParamsError, <<>>)
            ELSE Ok([w EXCEPT !.impl[self].protocol_addresses = Initialized(pa.v, sa.v)],
                    <<>>, <<>>, <<>>)

\* Mutant: the sender check of the implementation passes for every sender.
impl_only_proxy_any(proxy_address, sender) == TRUE

impl_only_proxy(proxy_address, sender) == matches_contract(sender, proxy_address)

\* StateImplementation serialized: admin, then the protocol addresses.
contract_implementation_view(w, self, sender, param) ==
    LET st == w.impl[self]
    IN Ok(w, IF st.protocol_addresses.init
             THEN <<st.admin, "1", st.protocol_addresses.a, st.protocol_addresses.b>>
             ELSE <<st.admin, "0">>,
          <<>>, <<>>)

get_protocol_addresses_from_implementation(w, self) == w.impl[self].protocol_addresses

\* Mutant: when_not_paused lets a paused contract through.
when_not_paused_ignored(w, self, state_address) ==
    Bind(InvokeFromImpl(w, self, state_address, "getPaused", <<>>, 0), LAMBDA r :
        [calls |-> r.calls,
         err |-> IF ~r.ok THEN I_InvokeContractError
                 ELSE IF ~GetBool(r.rv).ok THEN I_ParseParamsError
                 ELSE 0])

\* The error code when_not_paused fails with (0: it passes), and its call.
when_not_paused(w, self, state_address) ==
    Bind(InvokeFromImpl(w, self, state_address, "getPaused", <<>>, 0), LAMBDA r :
        [calls |-> r.calls,
         err |-> IF ~r.ok THEN I_InvokeContractError
                 ELSE IF ~GetBool(r.rv).ok THEN I_ParseParamsError
                 ELSE IF GetBool(r.rv).v THEN I_ContractPaused
                 ELSE 0])

contract_implementation_update_player_state(w, self, sender, param) ==
    LET pa == get_protocol_addresses_from_implementation(w, self)
        player == GetAddress(param)
        st == GetEnum(ImplPlayerState, param, 2)
    IN IF ~pa.init THEN Reject(w, I_UnInitialized, <<>>)
       ELSE IF ~impl_only_proxy(pa.a, sender) THEN Reject(w, I_OnlyProxy, <<>>)
       ELSE Bind(when_not_paused(w, self, pa.b), LAMBDA np :
            IF np.err # 0 THEN Reject(w, np.err, np.calls)
            ELSE IF ~(player.ok /\ st.ok) THEN Reject(w, I_ParseParamsError, np.calls)
            ELSE Bind(InvokeFromImpl(w, self, pa.b, "updatePlayerState",
                          <<player.v, Tok(Ordinal(ImplPlayerState, st.v))>>, 0),
                      LAMBDA r :
                 IF ~r.ok THEN Reject(w, I_InvokeContractError, np.calls \o r.calls)
                 ELSE Ok(r.w, <<>>, <<>>, np.calls \o r.calls)))

contract_implementation_update_battle_result(w, self, sender, param) ==
    LET pa == get_protocol_addresses_from_implementation(w, self)
        player == GetAddress(param)
        res == GetEnum(BattleResult, param, 2)
    IN IF ~pa.init THEN Reject(w, I_UnInitialized, <<>>)
       ELSE IF ~impl_only_proxy(pa.a, sender) THEN Reject(w, I_OnlyProxy, <<>>)
       ELSE Bind(when_not_paused(w, self, pa.b), LAMBDA np :
            IF np.err # 0 THEN Reject(w, np.err, np.calls)
            ELSE IF ~(player.ok /\ res.ok) THEN Reject(w, I_ParseParamsError, np.calls)
            ELSE Bind(InvokeFromImpl(w, self, pa.b, "updateBattleResult",
                          <<player.v, Tok(Ordinal(BattleResult, res.v))>>, 0),
                      LAMBDA r :
                 IF ~r.ok THEN Reject(w, I_InvokeContractError, np.calls \o r.calls)
                 ELSE Ok(r.w, <<>>, <<>>, np.calls \o r.calls)))

\* StateImplementation::is_added: the error code (0: none), the answer, the call.
is_added(w, self, state_address, player) ==
    Bind(InvokeFromImpl(w, self, state_address, "isAdded", <<player>>, 0), LAMBDA r :
        [calls |-> r.calls,
         err |-> IF ~r.ok THEN I_InvokeContractError
                 ELSE IF ~GetBool(r.rv).ok THEN I_ParseParamsError
                 ELSE 0,
         v |-> r.ok /\ GetBool(r.rv).ok /\ GetBool(r.rv).v])

\* Mutant: addPlayer decodes its parameter before the pause check.
contract_implementation_add_player_parse_first(w, self, sender, param) ==
    LET pa == get_protocol_addresses_from_implementation(w, self)
        player == GetAddress(param)
    IN IF ~pa.init THEN Reject(w, I_UnInitialized, <<>>)
       ELSE IF ~impl_only_proxy(pa.a, sender) THEN Reject(w, I_OnlyProxy, <<>>)
       ELSE IF ~player.ok THEN Reject(w, I_ParseParamsError, <<>>)
       ELSE Bind(when_not_paused(w, self, pa.b), LAMBDA np :
            IF np.err # 0 THEN Reject(w, np.err, np.calls)
            ELSE Bind(is_added(w, self, pa.b, player.v), LAMBDA added :
                 IF added.err # 0 THEN Reject(w, added.err, np.calls \o added.calls)
                 ELSE IF ~added.v
                      THEN Reject(w, I_AlreadyAdded, np.calls \o added.calls)
                 ELSE Bind(InvokeFromImpl(w, self, pa.b, "addPlayer", <<player.v>>, 0),
                           LAMBDA r :
                      IF ~r.ok
                      THEN Reject(w, I_InvokeContractError,
                                  np.calls \o added.calls \o r.calls)
                      ELSE Ok(r.w, <<>>, <<>>, np.calls \o added.calls \o r.calls))))

contract_implementation_add_player(w, self, sender, param) ==
    LET pa == get_protocol_addresses_from_implementation(w, self)
        player == GetAddress(param)
    IN IF ~pa.init THEN Reject(w, I_UnInitialized, <<>>)
       ELSE IF ~impl_only_proxy(pa.a, sender) THEN Reject(w, I_OnlyProxy, <<>>)
       ELSE Bind(when_not_paused(w, self, pa.b), LAMBDA np :
            IF np.err # 0 THEN Reject(w, np.err, np.calls)
            ELSE IF ~player.ok THEN Reject(w, I_ParseParamsError, np.calls)
            ELSE Bind(is_added(w, self, pa.b, player.v), LAMBDA added :
                 IF added.err # 0 THEN Reject(w, added.err, np.calls \o added.calls)
                 ELSE IF ~added.v
                      THEN Reject(w, I_AlreadyAdded, np.calls \o added.calls)
                 ELSE Bind(InvokeFromImpl(w, self, pa.b, "addPlayer", <<player.v>>, 0),
                           LAMBDA r :
                      IF ~r.ok
                      THEN Reject(w, I_InvokeContractError,
                                  np.calls \o added.calls \o r.calls)
                      ELSE Ok(r.w, <<>>, <<>>, np.calls \o added.calls \o r.calls))))

\* Mutant: updateAdmin of the implementation without the admin check.
contract_implementation_update_admin_by_anyone(w, self, sender, param) ==
    LET new_admin == GetAddress(param)
    IN IF ~new_admin.ok THEN Reject(w, I_ParseParamsError, <<>>)
       ELSE Ok([w EXCEPT !.impl[self].admin = new_admin.v], <<>>,
               <<NewAdminEvent(self, new_admin.v)>>, <<>>)

\* Mutant: updateAdmin of the implementation logs the admin it replaces.
contract_implementation_update_admin_logs_old(w, self, sender, param) ==
    LET new_admin == GetAddress(param)
    IN IF sender # w.impl[self].admin THEN Reject(w, I_OnlyAdmin, <<>>)
       ELSE IF ~new_admin.ok THEN Reject(w, I_ParseParamsError, <<>>)
       ELSE Ok([w EXCEPT !.impl[self].admin = new_admin.v], <<>>,
               <<NewAdminEvent(self, w.impl[self].admin)>>, <<>>)

contract_implementation_update_admin(w, self, sender, param) ==
    LET new_admin == GetAddress(param)
    IN IF sender # w.impl[self].admin THEN Reject(w, I_OnlyAdmin, <<>>)
       ELSE IF ~new_admin.ok THEN Reject(w, I_ParseParamsError, <<>>)
       ELSE Ok([w EXCEPT !.impl[self].admin = new_admin.v], <<>>,
               <<NewAdminEvent(self, new_admin.v)>>, <<>>)

\* Mutant: pause and unpause without the admin check.
set_paused_by_admin_unchecked(w, self, sender, paused) ==
    LET pa == get_protocol_addresses_from_implementation(w, self)
    IN IF ~pa.init THEN Reject(w, I_UnInitialized, <<>>)
       ELSE Bind(InvokeFromImpl(w, self, pa.b, "setPaused", <<BoolTok(paused)>>, 0),
                 LAMBDA r :
            IF ~r.ok THEN Reject(w, I_InvokeContractError, r.calls)
            ELSE Ok(r.w, <<>>, <<>>, r.calls))

\* Mutant: pause and unpause re-raise the error of the state contract.
set_paused_by_admin_passes_error(w, self, sender, paused) ==
    LET pa == get_protocol_addresses_from_implementation(w, self)
    IN IF sender # w.impl[self].admin THEN Reject(w, I_OnlyAdmin, <<>>)
       ELSE IF ~pa.init THEN Reject(w, I_UnInitialized, <<>>)
       ELSE Bind(InvokeFromImpl(w, self, pa.b, "setPaused", <<BoolTok(paused)>>, 0),
                 LAMBDA r :
            IF ~r.ok THEN RejectRaw(w, r.reason, r.rv, r.calls)
            ELSE Ok(r.w, <<>>, <<>>, r.calls))

\* Mutant: pause and unpause are refused while the contract is paused.
set_paused_by_admin_when_not_paused(w, self, sender, paused) ==
    LET pa == get_protocol_addresses_from_implementation(w, self)
    IN IF sender # w.impl[self].admin THEN Reject(w, I_OnlyAdmin, <<>>)
       ELSE IF ~pa.init THEN Reject(w, I_UnInitialized, <<>>)
       ELSE Bind(when_not_paused(w, self, pa.b), LAMBDA np :
            IF np.err # 0 THEN Reject(w, np.err, np.calls)
            ELSE Bind(InvokeFromImpl(w, self, pa.b, "setPaused", <<BoolTok(paused)>>, 0),
                      LAMBDA r :
                 IF ~r.ok THEN Reject(w, I_InvokeContractError, np.calls \o r.calls)
                 ELSE Ok(r.w, <<>>, <<>>, np.calls \o r.calls)))

\* contract_pause (paused = TRUE) and contract_un_pause (paused = FALSE)
set_paused_by_admin(w, self, sender, paused) ==
    LET pa == get_protocol_addresses_from_implementation(w, self)
    IN IF sender # w.impl[self].admin THEN Reject(w, I_OnlyAdmin, <<>>)
       ELSE IF ~pa.init THEN Reject(w, I_UnInitialized, <<>>)
       ELSE Bind(InvokeFromImpl(w, self, pa.b, "setPaused", <<BoolTok(paused)>>, 0),
                 LAMBDA r :
            IF ~r.ok THEN Reject(w, I_InvokeContractError, r.calls)
            ELSE Ok(r.w, <<>>, <<>>, r.calls))

contract_pause(w, self, sender, param) == set_paused_by_admin(w, self, sender, TRUE)

contract_un_pause(w, self, sender, param) == set_paused_by_admin(w, self, sender, FALSE)

contract_implementation_get_player_data(w, self, sender, param) ==
    LET player == GetAddress(param)
        pa == get_protocol_addresses_from_implementation(w, self)
    IN IF ~player.ok THEN Reject(w, I_ParseParamsError, <<>>)
       ELSE IF ~pa.init THEN Reject(w, I_UnInitialized, <<>>)
       ELSE Bind(InvokeFromImpl(w, self, pa.b, "getPlayerData", <<player.v>>, 0),
                 LAMBDA r :
            IF ~r.ok THEN Reject(w, I_InvokeContractError, r.calls)
            ELSE IF ~(GetEnum(ImplPlayerState, r.rv, 1).ok
                      /\ GetEnum(BattleResult, r.rv, 2).ok)
                 THEN Reject(w, I_ParseParamsError, r.calls)
            ELSE Ok(w, <<Tok(Ordinal(ImplPlayerState, GetEnum(ImplPlayerState, r.rv, 1).v)),
                         Tok(Ordinal(BattleResult, GetEnum(BattleResult, r.rv, 2).v))>>,
                    <<>>, r.calls))

ImplEntries ==
    {"initialize", "view", "updatePlayerState", "updateBattleResult", "addPlayer",
     "updateAdmin", "pause", "unpause", "getPlayerData"}

\* The entry points of Versus-Implementation; none is payable.
ImplReceive(w, self, sender, entry, param, amount) ==
    IF entry \notin ImplEntries THEN HostFail(w, "MissingEntrypoint", <<>>)
    ELSE IF amount # 0 THEN RejectRaw(w, NotPayableCode, <<>>, <<>>)
    ELSE CASE entry = "initialize" -> contract_initialize(w, self, sender, param)
           [] entry = "view" -> contract_implementation_view(w, self, sender, param)
           [] entry = "updatePlayerState" ->
                  contract_implementation_update_player_state(w, self, sender, param)
           [] entry = "updateBattleResult" ->
                  contract_implementation_update_battle_result(w, self, sender, param)
           [] entry = "addPlayer" ->
                  contract_implementation_add_player(w, self, sender, param)
           [] entry = "updateAdmin" ->
                  contract_implementation_update_admin(w, self, sender, param)
           [] entry = "pause" -> contract_pause(w, self, sender, param)
           [] entry = "unpause" -> contract_un_pause(w, self, sender, param)
           [] entry = "getPlayerData" ->
                  contract_implementation_get_player_data(w, self, sender, param)

(***************************************************************************)
(* Versus-Proxy                                                            *)
(***************************************************************************)
Px_ParseParams == -1

Px_InvokeContractError == -4

Px_UnInitialized == -8

Px_OnlyImplementation == -9

Px_OnlyAdmin == -12

\* contract_proxy_init: the deploying account becomes the admin.
StateProxy(admin, implementation_address, state_address) ==
    [admin |-> admin, implementation_address |-> implementation_address,
     state_address |-> state_address]

\* Mutant: the constructor stores the two addresses the wrong way round.
contract_proxy_init_swapped(origin, param) ==
    LET ia == GetContractAddress(param, 1)
        sa == GetContractAddress(param, 2)
    IN IF ~(ia.ok /\ sa.ok) THEN InitReject(Px_ParseParams)
       ELSE InitOk(StateProxy(origin, sa.v, ia.v), <<>>)

\* The constructor of Versus-Proxy: InitProxyParams is the implementation
\* address, then the state address.
contract_proxy_init(origin, param) ==
    LET ia == GetContractAddress(param, 1)
        sa == GetContractAddress(param, 2)
    IN IF ~(ia.ok /\ sa.ok) THEN InitReject(Px_ParseParams)
       ELSE InitOk(StateProxy(origin, ia.v, sa.v), <<>>)

\* VersusEvent::NewAdmin / NewImplementation of the proxy, serialized
ProxyNewAdminEvent(new_admin) == [by |-> P, data |-> <<"NewAdmin", new_admin>>]

NewImplementationEvent(new_implementation) ==
    [by |-> P, data |-> <<"NewImplementation", new_implementation>>]

\* host.invoke_contract / invoke_contract_raw from the proxy: the callee is
\* the state contract, an implementation instance, or a contract without
\* the entry point.
InvokeFromProxy(w, target, entry, param, amount) ==
    IF target = S
    THEN Called(Call(P, target, entry, param, amount),
                StateReceive(w, P, entry, param, amount))
    ELSE IF target \in ImplAddrs
    THEN Called(Call(P, target, entry, param, amount),
                ImplReceive(w, target, P, entry, param, amount))
    ELSE HostFail(w, "MissingEntrypoint", <<Call(P, target, entry, param, amount)>>)

\* Mutant: the sender check of the proxy passes for every sender.
proxy_only_implementation_any(implementation_address, sender) == TRUE

proxy_only_implementation(implementation_address, sender) ==
    matches_contract(sender, implementation_address)

contract_proxy_log_event(w, sender, param) ==
    IF ~proxy_only_implementation(w.proxy.implementation_address, sender)
    THEN Reject(w, Px_OnlyImplementation, <<>>)
    ELSE Ok(w, <<>>, <<[by |-> P, data |-> param]>>, <<>>)

\* Mutant: initialize goes on when a callee refuses, and reports success.
contract_proxy_initialize_ignores_errors(w, sender, param) ==
    LET state_address == w.proxy.state_address
        implementation_address == w.proxy.implementation_address
    IN Bind(InvokeFromProxy(w, state_address, "initialize",
                            <<P, implementation_address>>, 0), LAMBDA r1 :
       Bind(InvokeFromProxy(r1.w, implementation_address, "initialize",
                            <<P, state_address>>, 0), LAMBDA r2 :
            Ok(r2.w, <<>>,
               <<NewImplementationEvent(implementation_address),
                 ProxyNewAdminEvent(w.proxy.admin)>>,
               r1.calls \o r2.calls)))

\* Mutant: initialize logs NewAdmin before NewImplementation.
contract_proxy_initialize_admin_first(w, sender, param) ==
    LET state_address == w.proxy.state_address
        implementation_address == w.proxy.implementation_address
    IN Bind(InvokeFromProxy(w, state_address, "initialize",
                            <<P, implementation_address>>, 0), LAMBDA r1 :
       IF ~r1.ok THEN Reject(w, Px_InvokeContractError, r1.calls)
       ELSE Bind(InvokeFromProxy(r1.w, implementation_address, "initialize",
                                 <<P, state_address>>, 0), LAMBDA r2 :
            IF ~r2.ok THEN Reject(w, Px_InvokeContractError, r1.calls \o r2.calls)
            ELSE Ok(r2.w, <<>>,
                    <<ProxyNewAdminEvent(w.proxy.admin),
                      NewImplementationEvent(implementation_address)>>,
                    r1.calls \o r2.calls)))

contract_proxy_initialize(w, sender, param) ==
    LET state_address == w.proxy.state_address
        implementation_address == w.proxy.implementation_address
    IN Bind(InvokeFromProxy(w, state_address, "initialize",
                            <<P, implementation_address>>, 0), LAMBDA r1 :
       IF ~r1.ok THEN Reject(w, Px_InvokeContractError, r1.calls)
       ELSE Bind(InvokeFromProxy(r1.w, implementation_address, "initialize",
                                 <<P, state_address>>, 0), LAMBDA r2 :
            IF ~r2.ok THEN Reject(w, Px_InvokeContractError, r1.calls \o r2.calls)
            ELSE Ok(r2.w, <<>>,
                    <<NewImplementationEvent(implementation_address),
                      ProxyNewAdminEvent(w.proxy.admin)>>,
                    r1.calls \o r2.calls)))

\* From<CallContractError<T>> for Reject (concordium-std), which r.into()
\* applies in the fallback: the result type of the fallback is Reject, not
\* the proxy's CustomContractError.
CallErrorCode(kind) ==
    CASE kind = "AmountTooLarge" -> I32Min + 15
      [] kind = "MissingAccount" -> I32Min + 16
      [] kind = "MissingContract" -> I32Min + 17
      [] kind = "MissingEntrypoint" -> I32Min + 18
      [] kind = "MessageFailed" -> I32Min + 19
      [] kind = "LogicReject" -> I32Min + 20
      [] kind = "Trap" -> I32Min + 21

\* Mutant: a rejection of the implementation is re-raised without its
\* return value.
fallback_map_err_no_payload(w, r) ==
    IF r.kind = "LogicReject"
    THEN RejectRaw(w, r.reason, <<>>, r.calls)
    ELSE RejectRaw(w, CallErrorCode(r.kind), <<>>, r.calls)

\* Mutant: every failure of the forwarded call becomes the proxy's
\* InvokeContractError.
fallback_map_err_generic(w, r) == Reject(w, Px_InvokeContractError, r.calls)

\* The closure of map_err in the fallback.
fallback_map_err(w, r) ==
    IF r.kind = "LogicReject"
    THEN RejectRaw(w, r.reason, r.rv, r.calls)
    ELSE RejectRaw(w, CallErrorCode(r.kind), <<>>, r.calls)

receive_fallback(w, sender, entry, param, amount) ==
    LET implementation == w.proxy.implementation_address
    IN Bind(InvokeFromProxy(w, implementation, entry, param, amount), LAMBDA r :
       IF ~r.ok THEN fallback_map_err(w, r)
       ELSE Ok(r.w, r.rv, r.events, r.calls))

\* StateProxy serialized
contract_proxy_view(w, sender, param) ==
    Ok(w, <<w.proxy.admin, w.proxy.implementation_address, w.proxy.state_address>>,
       <<>>, <<>>)

\* Mutant: updateAdmin succeeds and logs, but does not store the new admin.
contract_proxy_update_admin_not_stored(w, sender, param) ==
    LET new_admin == GetAddress(param)
    IN IF sender # w.proxy.admin THEN Reject(w, Px_OnlyAdmin, <<>>)
       ELSE IF ~new_admin.ok THEN Reject(w, Px_ParseParams, <<>>)
       ELSE Ok(w, <<>>, <<ProxyNewAdminEvent(new_admin.v)>>, <<>>)

contract_proxy_update_admin(w, sender, param) ==
    LET new_admin == GetAddress(param)
    IN IF sender # w.proxy.admin THEN Reject(w, Px_OnlyAdmin, <<>>)
       ELSE IF ~new_admin.ok THEN Reject(w, Px_ParseParams, <<>>)
       ELSE Ok([w EXCEPT !.proxy.admin = new_admin.v], <<>>,
               <<ProxyNewAdminEvent(new_admin.v)>>, <<>>)

\* Mutant: updateImplementation keeps its local update and reports success
\* when the state contract refuses the new address.
contract_proxy_update_implementation_ignores_errors(w, sender, param) ==
    LET new == GetContractAddress(param, 1)
        w1 == [w EXCEPT !.proxy.implementation_address = new.v]
    IN IF sender # w.proxy.admin THEN Reject(w, Px_OnlyAdmin, <<>>)
       ELSE IF ~new.ok THEN Reject(w, Px_ParseParams, <<>>)
       ELSE Bind(InvokeFromProxy(w1, w1.proxy.state_address, "setImplementationAddress",
                                 <<new.v>>, 0), LAMBDA r :
            IF ~r.ok THEN Ok(w1, <<>>, <<NewImplementationEvent(new.v)>>, r.calls)
            ELSE Ok(r.w, <<>>, <<NewImplementationEvent(new.v)>>, r.calls))

\* Mutant: updateImplementation stores the new address in the Proxy and does
\* not tell the state contract.
contract_proxy_update_implementation_local_only(w, sender, param) ==
    LET new == GetContractAddress(param, 1)
    IN IF sender # w.proxy.admin THEN Reject(w, Px_OnlyAdmin, <<>>)
       ELSE IF ~new.ok THEN Reject(w, Px_ParseParams, <<>>)
       ELSE Ok([w EXCEPT !.proxy.implementation_address = new.v], <<>>,
               <<NewImplementationEvent(new.v)>>, <<>>)

\* Mutant: updateImplementation tells the state contract but keeps the
\* proxy's own implementation address.
contract_proxy_update_implementation_keeps_old(w, sender, param) ==
    LET new == GetContractAddress(param, 1)
    IN IF sender # w.proxy.admin THEN Reject(w, Px_OnlyAdmin, <<>>)
       ELSE IF ~new.ok THEN Reject(w, Px_ParseParams, <<>>)
       ELSE Bind(InvokeFromProxy(w, w.proxy.state_address, "setImplementationAddress",
                                 <<new.v>>, 0), LAMBDA r :
            IF ~r.ok THEN Reject(w, Px_InvokeContractError, r.calls)
            ELSE Ok(r.w, <<>>, <<NewImplementationEvent(new.v)>>, r.calls))

\* Mutant: updateImplementation also initializes the new implementation.
contract_proxy_update_implementation_initializes(w, sender, param) ==
    LET new == GetContractAddress(param, 1)
        w1 == [w EXCEPT !.proxy.implementation_address = new.v]
    IN IF sender # w.proxy.admin THEN Reject(w, Px_OnlyAdmin, <<>>)
       ELSE IF ~new.ok THEN Reject(w, Px_ParseParams, <<>>)
       ELSE Bind(InvokeFromProxy(w1, w1.proxy.state_address, "setImplementationAddress",
                                 <<new.v>>, 0), LAMBDA r :
            IF ~r.ok THEN Reject(w, Px_InvokeContractError, r.calls)
            ELSE Bind(InvokeFromProxy(r.w, new.v, "initialize",
                                      <<P, w1.proxy.state_address>>, 0), LAMBDA r2 :
                 Ok(r2.w, <<>>, <<NewImplementationEvent(new.v)>>,
                    r.calls \o r2.calls)))

contract_proxy_update_implementation(w, sender, param) ==
    LET new == GetContractAddress(param, 1)
        w1 == [w EXCEPT !.proxy.implementation_address = new.v]
    IN IF sender # w.proxy.admin THEN Reject(w, Px_OnlyAdmin, <<>>)
       ELSE IF ~new.ok THEN Reject(w, Px_ParseParams, <<>>)
       ELSE Bind(InvokeFromProxy(w1, w1.proxy.state_address, "setImplementationAddress",
                                 <<new.v>>, 0), LAMBDA r :
            IF ~r.ok THEN Reject(w, Px_InvokeContractError, r.calls)
            ELSE Ok(r.w, <<>>, <<NewImplementationEvent(new.v)>>, r.calls))

ProxyEntries == {"logEvent", "initialize", "view", "updateAdmin", "updateImplementation"}

\* The entry points of Versus-Proxy: the named ones are not payable, every
\* other name goes to the payable fallback.
ProxyReceive(w, sender, entry, param, amount) ==
    IF entry \notin ProxyEntries THEN receive_fallback(w, sender, entry, param, amount)
    ELSE IF amount # 0 THEN RejectRaw(w, NotPayableCode, <<>>, <<>>)
    ELSE CASE entry = "logEvent" -> contract_proxy_log_event(w, sender, param)
           [] entry = "initialize" -> contract_proxy_initialize(w, sender, param)
           [] entry = "view" -> contract_proxy_view(w, sender, param)
           [] entry = "updateAdmin" -> contract_proxy_update_admin(w, sender, param)
           [] entry = "updateImplementation" ->
                  contract_proxy_update_implementation(w, sender, param)

\* The host's dispatch of an invocation to the receive function of the
\* addressed contract instance.
Invoke(w, sender, target, entry, param, amount) ==
    IF target = P THEN ProxyReceive(w, sender, entry, param, amount)
    ELSE IF target = S THEN StateReceive(w, sender, entry, param, amount)
    ELSE IF target \in ImplAddrs THEN ImplReceive(w, target, sender, entry, param, amount)
    ELSE HostFail(w, "MissingEntrypoint", <<>>)

(***************************************************************************)
(* Transactions.  The deployment: one account deploys the state contract,  *)
(* both implementation instances and the proxy, the proxy with the         *)
(* addresses of I1 and S.  A transaction is sent by an account, or by the  *)
(* foreign contract X on behalf of one.                                    *)
(*                                                                         *)
(* A behaviour follows one scenario, fixed in scn, which bounds the        *)
(* parameters its transactions carry:                                      *)
(*   bootstrap  initialize with right and wrong addresses, by anyone       *)
(*   records    the player records in full, after a regular initialize     *)
(*   upgrade    updateImplementation to I1, I2 or X                        *)
(*   admin      updateAdmin on the proxy and on I1                         *)
(* Every scenario also sends each entry point an empty (undecodable)       *)
(* parameter.                                                              *)
(***************************************************************************)
Deployer == "a1"

Senders == Accounts \cup {X}

Scenarios == {"bootstrap", "records", "upgrade", "admin"}

World == [proxy |-> proxy, impl |-> impl, state |-> state]

NoParam == {<<>>}

AllPlayers == {"a1", "a2"}

AllOrds == {"0", "1", "2"}

Players ==
    CASE scn = "records" -> AllPlayers
      [] scn \in {"bootstrap", "upgrade"} -> {"a1"}
      [] OTHER -> {}

Ords ==
    CASE scn = "records" -> AllOrds
      [] scn = "bootstrap" -> {"0", "1"}
      [] OTHER -> {"1"}

\* The implementation instances that are sent transactions directly.
ImplTargets == IF scn = "upgrade" THEN ImplAddrs ELSE {"I1"}

StateInitParams ==
    (IF scn = "bootstrap" THEN {<<p, i>> : p \in {P, X}, i \in ImplAddrs}
     ELSE {<<P, "I1">>}) \cup NoParam

ImplInitParams ==
    (IF scn = "bootstrap" THEN {<<p, s>> : p \in {P, X}, s \in {S, X}}
     ELSE {<<P, S>>}) \cup NoParam

NewImplParams ==
    (IF scn = "upgrade" THEN {<<i>> : i \in ImplAddrs \cup {X}} ELSE {}) \cup NoParam

BoolParams == {<<"0">>, <<"1">>} \cup NoParam

PlayerParams == {<<p>> : p \in Players} \cup NoParam

PlayerOrdParams == {<<p, o>> : p \in Players, o \in Ords} \cup NoParam

AdminParams == (IF scn = "admin" THEN {<<a>> : a \in Accounts} ELSE {}) \cup NoParam

LogParams == {<<"0">>} \cup NoParam

Amounts == {0, 1}

\* The entry names sent to the proxy's fallback, each with its parameters.
FallbackEntries ==
    {"updatePlayerState", "updateBattleResult", "addPlayer", "pause", "unpause",
     "getPlayerData", "foo"}

FallbackParams(entry) ==
    CASE entry \in {"updatePlayerState", "updateBattleResult"} -> PlayerOrdParams
      [] entry \in {"addPlayer", "getPlayerData"} -> PlayerParams
      [] OTHER -> NoParam

NoTx == [to |-> "", entry |-> "", ok |-> FALSE, kind |-> "", reason |-> 0,
         callees |-> <<>>]

Callees(calls) == [i \in 1..Len(calls) |-> calls[i].to]

\* The host commits the world of a successful chain and discards the
\* changes of a failed one.
Commit(to, entry, r) ==
    /\ proxy' = IF r.ok THEN r.w.proxy ELSE proxy
    /\ impl' = IF r.ok THEN r.w.impl ELSE impl
    /\ state' = IF r.ok THEN r.w.state ELSE state
    /\ last' = [to |-> to, entry |-> entry, ok |-> r.ok, kind |-> r.kind,
                reason |-> r.reason, callees |-> Callees(r.calls)]
    /\ UNCHANGED scn

Init ==
    /\ proxy = contract_proxy_init(Deployer, <<"I1", S>>).state
    /\ impl = [i \in ImplAddrs |-> contract_init(i, Deployer, <<>>).state]
    /\ state = contract_state_init(Deployer, <<>>).state
    /\ last = NoTx
    /\ scn \in Scenarios

StateTx(entry, params) ==
    \E sender \in Senders, param \in params :
        Commit(S, entry, Invoke(World, sender, S, entry, param, 0))

ImplTx(entry, params) ==
    \E self \in ImplTargets, sender \in Senders, param \in params :
        Commit(self, entry, Invoke(World, sender, self, entry, param, 0))

ProxyTx(entry, params) ==
    \E sender \in Senders, param \in params :
        Commit(P, entry, Invoke(World, sender, P, entry, param, 0))

StateInitialize == StateTx("initialize", StateInitParams)

StateSetImplementationAddress == StateTx("setImplementationAddress", NewImplParams)

StateSetPaused == StateTx("setPaused", BoolParams)

StateUpdatePlayerState == StateTx("updatePlayerState", PlayerOrdParams)

StateUpdateBattleResult == StateTx("updateBattleResult", PlayerOrdParams)

StateAddPlayer == StateTx("addPlayer", PlayerParams)

StateGetPaused == StateTx("getPaused", NoParam)

StateGetPlayerData == StateTx("getPlayerData", PlayerParams)

StateView == StateTx("view", NoParam)

ImplInitialize == ImplTx("initialize", ImplInitParams)

ImplView == ImplTx("view", NoParam)

ImplUpdatePlayerState == ImplTx("updatePlayerState", PlayerOrdParams)

ImplUpdateBattleResult == ImplTx("updateBattleResult", PlayerOrdParams)

ImplAddPlayer == ImplTx("addPlayer", PlayerParams)

ImplUpdateAdmin == ImplTx("updateAdmin", AdminParams)

ImplPause == ImplTx("pause", NoParam)

ImplUnpause == ImplTx("unpause", NoParam)

ImplGetPlayerData == ImplTx("getPlayerData", PlayerParams)

ProxyLogEvent == ProxyTx("logEvent", LogParams)

ProxyInitialize == ProxyTx("initialize", NoParam)

ProxyView == ProxyTx("view", NoParam)

ProxyUpdateAdmin == ProxyTx("updateAdmin", AdminParams)

ProxyUpdateImplementation == ProxyTx("updateImplementation", NewImplParams)

ProxyFallback ==
    \E sender \in Senders, entry \in FallbackEntries, amount \in Amounts :
        \E param \in FallbackParams(entry) :
            Commit(P, entry, Invoke(World, sender, P, entry, param, amount))

Next ==
    \/ StateInitialize
    \/ StateSetImplementationAddress
    \/ StateSetPaused
    \/ StateUpdatePlayerState
    \/ StateUpdateBattleResult
    \/ StateAddPlayer
    \/ StateGetPaused
    \/ StateGetPlayerData
    \/ StateView
    \/ ImplInitialize
    \/ ImplView
    \/ ImplUpdatePlayerState
    \/ ImplUpdateBattleResult
    \/ ImplAddPlayer
    \/ ImplUpdateAdmin
    \/ ImplPause
    \/ ImplUnpause
    \/ ImplGetPlayerData
    \/ ProxyLogEvent
    \/ ProxyInitialize
    \/ ProxyView
    \/ ProxyUpdateAdmin
    \/ ProxyUpdateImplementation
    \/ ProxyFallback

Spec == Init /\ [][Next]_vars

(***************************************************************************)
(* Properties.  The quantified parameters range over every payload shape   *)
(* of the scenarios together, whatever the scenario of the behaviour.      *)
(***************************************************************************)
PlayerOrdPayloads == {<<p, o>> : p \in AllPlayers, o \in AllOrds} \cup NoParam

PlayerPayloads == {<<p>> : p \in AllPlayers} \cup NoParam

Payloads(entry) ==
    CASE entry \in {"updatePlayerState", "updateBattleResult"} -> PlayerOrdPayloads
      [] entry \in {"addPlayer", "getPlayerData"} -> PlayerPayloads
      [] OTHER -> {<<"0">>} \cup NoParam

\* The three components know each other as Proxy.initialize leaves them.
Wired ==
    /\ proxy.implementation_address \in ImplAddrs
    /\ proxy.state_address = S
    /\ state.protocol_addresses = Initialized(P, proxy.implementation_address)
    /\ impl[proxy.implementation_address].protocol_addresses = Initialized(P, S)

----
\* C1 as stated: a call of a forwarded entry on the Proxy has the same
\* outcome and returned payload as the same call sent by the same caller
\* directly to the Proxy's current Implementation address.
C1_SameAsDirectCall ==
    \A sender \in Senders, entry \in FallbackEntries :
        \A param \in Payloads(entry) :
            LET via == Invoke(World, sender, P, entry, param, 0)
                direct == Invoke(World, sender, proxy.implementation_address,
                                 entry, param, 0)
            IN via.ok = direct.ok /\ via.rv = direct.rv

\* C1 (amended): a call of a forwarded entry on the Proxy, by any sender,
\* has the same outcome, returned payload and effect as that entry invoked
\* with the same payload and amount on the current Implementation address
\* with the Proxy as sender.
C1_FallbackForwards ==
    \A sender \in Senders, entry \in FallbackEntries, amount \in Amounts :
        \A param \in Payloads(entry) :
            LET via == Invoke(World, sender, P, entry, param, amount)
                direct == Invoke(World, P, proxy.implementation_address,
                                 entry, param, amount)
            IN /\ via.ok = direct.ok
               /\ via.rv = direct.rv
               /\ via.w = direct.w
               /\ via.events = direct.events

C1_Witness ==
    /\ last.to = P
    /\ last.entry = "updateBattleResult"
    /\ last.ok
    /\ last.callees = <<proxy.implementation_address, S, S>>

----
\* C2 as stated: a rejection of the forwarded call with a reason code and a
\* payload is re-raised with that code and payload, every other forwarding
\* failure is reported as the Proxy's InvokeContractError, and the bytes of
\* a success are returned unchanged.
C2_GenericIsInvokeContractError ==
    \A sender \in Senders, entry \in FallbackEntries, amount \in Amounts :
        \A param \in Payloads(entry) :
            LET via == Invoke(World, sender, P, entry, param, amount)
                r == Invoke(World, P, proxy.implementation_address, entry, param, amount)
            IN /\ r.ok => via.ok /\ via.rv = r.rv
               /\ ~r.ok /\ r.kind = "LogicReject" =>
                      ~via.ok /\ via.reason = r.reason /\ via.rv = r.rv
               /\ ~r.ok /\ r.kind # "LogicReject" =>
                      ~via.ok /\ via.reason = Px_InvokeContractError

\* C2 (amended): as stated, except that every other forwarding failure is
\* reported with the reject code the host library gives that kind of call
\* failure and with no payload, not with the Proxy's InvokeContractError.
C2_FallbackErrors ==
    \A sender \in Senders, entry \in FallbackEntries, amount \in Amounts :
        \A param \in Payloads(entry) :
            LET via == Invoke(World, sender, P, entry, param, amount)
                r == Invoke(World, P, proxy.implementation_address, entry, param, amount)
            IN /\ r.ok => via.ok /\ via.rv = r.rv
               /\ ~r.ok /\ r.kind = "LogicReject" =>
                      ~via.ok /\ via.kind = "LogicReject"
                      /\ via.reason = r.reason /\ via.rv = r.rv
               /\ ~r.ok /\ r.kind # "LogicReject" =>
                      ~via.ok /\ via.kind = "LogicReject"
                      /\ via.reason = I32Min + 18 /\ via.rv = <<>>
                      /\ via.reason # Px_InvokeContractError

C2_Witness ==
    /\ last.to = P
    /\ last.entry = "updatePlayerState"
    /\ ~last.ok
    /\ last.reason = I_ContractPaused
    /\ state.paused

----
\* C3: the fallback invokes the entry it was called with, with the same
\* parameter and amount, on the implementation address the Proxy stores at
\* that time and on no other implementation instance; after a successful
\* updateImplementation(new_impl) that address is new_impl.
C3_ForwardsToCurrentImplementation ==
    /\ \A sender \in Senders, entry \in FallbackEntries, amount \in Amounts :
           \A param \in Payloads(entry) :
               LET r == Invoke(World, sender, P, entry, param, amount)
               IN /\ r.calls # <<>>
                  /\ r.calls[1] = Call(P, proxy.implementation_address, entry, param, amount)
                  /\ \A i \in 1..Len(r.calls) :
                         r.calls[i].to \in ImplAddrs =>
                             r.calls[i].to = proxy.implementation_address
    /\ \A admin \in Senders, new \in ImplAddrs \cup {X} :
           LET u == Invoke(World, admin, P, "updateImplementation", <<new>>, 0)
           IN u.ok =>
                  \A sender \in Senders, entry \in FallbackEntries, amount \in Amounts :
                      \A param \in Payloads(entry) :
                          LET r == Invoke(u.w, sender, P, entry, param, amount)
                          IN /\ r.calls[1] = Call(P, new, entry, param, amount)
                             /\ \A i \in 1..Len(r.calls) :
                                    r.calls[i].to \in ImplAddrs => r.calls[i].to = new

C3_Witness ==
    /\ proxy.implementation_address = "I2"
    /\ last.to = P
    /\ last.entry = "updateBattleResult"
    /\ last.ok
    /\ last.callees = <<"I2", S, S>>

----
BusinessEntries == {"updatePlayerState", "updateBattleResult", "addPlayer"}

\* C4: on an initialized Implementation, updatePlayerState, updateBattleResult
\* and addPlayer called by a sender that is not the recorded Proxy address
\* fail with OnlyProxy and change nothing, State's data included.
C4_OnlyProxyGate ==
    \A self \in ImplAddrs, sender \in Addresses, entry \in BusinessEntries :
        \A param \in Payloads(entry) :
            LET pa == impl[self].protocol_addresses
                r == Invoke(World, sender, self, entry, param, 0)
            IN pa.init /\ sender # pa.a =>
                   /\ ~r.ok
                   /\ r.kind = "LogicReject"
                   /\ r.reason = I_OnlyProxy
                   /\ r.w.state = state
                   /\ \A i \in 1..Len(r.calls) : r.calls[i].to # S

C4_Witness ==
    /\ last.to = "I1"
    /\ last.entry = "addPlayer"
    /\ last.reason = I_OnlyProxy
    /\ impl["I1"].protocol_addresses = Initialized(P, S)
    /\ state.protocol_addresses = Initialized(P, "I1")
    /\ ~state.paused

----
StateMutations == {"setPaused", "updatePlayerState", "updateBattleResult", "addPlayer"}

StatePayloads(entry) ==
    IF entry = "setPaused" THEN {<<"0">>, <<"1">>} \cup NoParam ELSE Payloads(entry)

\* C5: on an initialized State, setPaused, updatePlayerState,
\* updateBattleResult and addPlayer called by a sender that is not the
\* recorded Implementation address fail with OnlyImplementation and leave
\* the player records, the pause flag and the address pair unchanged.
C5_OnlyImplementationGate ==
    \A sender \in Addresses, entry \in StateMutations :
        \A param \in StatePayloads(entry) :
            LET pa == state.protocol_addresses
                r == Invoke(World, sender, S, entry, param, 0)
            IN pa.init /\ sender # pa.b =>
                   /\ ~r.ok
                   /\ r.kind = "LogicReject"
                   /\ r.reason = S_OnlyImplementation
                   /\ r.w.state = state

C5_Witness ==
    /\ last.to = S
    /\ last.entry = "setPaused"
    /\ last.reason = S_OnlyImplementation
    /\ state.protocol_addresses.init

----
AddressPairs == {<<a, b>> : a \in ContractAddrs, b \in ContractAddrs}

\* C6: initialize of State and of Implementation succeeds on an
\* Uninitialized instance, recording the two supplied addresses, and fails
\* with AlreadyInitialized on an Initialized one, for every sender and
\* parameter, leaving the recorded addresses unchanged.
C6_InitializeOnce ==
    /\ \A sender \in Addresses, param \in AddressPairs \cup NoParam :
           LET r == Invoke(World, sender, S, "initialize", param, 0)
           IN IF state.protocol_addresses.init
              THEN /\ ~r.ok
                   /\ r.reason = S_AlreadyInitialized
                   /\ r.w.state.protocol_addresses = state.protocol_addresses
              ELSE param \in AddressPairs =>
                       /\ r.ok
                       /\ r.w.state.protocol_addresses = Initialized(param[1], param[2])
    /\ \A self \in ImplAddrs, sender \in Addresses, param \in AddressPairs \cup NoParam :
           LET r == Invoke(World, sender, self, "initialize", param, 0)
           IN IF impl[self].protocol_addresses.init
              THEN /\ ~r.ok
                   /\ r.reason = I_AlreadyInitialized
                   /\ r.w.impl[self].protocol_addresses = impl[self].protocol_addresses
              ELSE param \in AddressPairs =>
                       /\ r.ok
                       /\ r.w.impl[self].protocol_addresses =
                              Initialized(param[1], param[2])

C6_Witness ==
    /\ last.to = S
    /\ last.entry = "initialize"
    /\ last.reason = S_AlreadyInitialized
    /\ state.protocol_addresses = Initialized(X, "I2")

----
\* C7: no transaction takes the ProtocolAddresses of State or of an
\* Implementation instance from Initialized back to Uninitialized.
C7_StaysInitialized ==
    [][/\ state.protocol_addresses.init => state'.protocol_addresses.init
       /\ \A i \in ImplAddrs :
              impl[i].protocol_addresses.init => impl'[i].protocol_addresses.init]_vars

C7_Witness ==
    /\ last.to = P
    /\ last.entry = "updateImplementation"
    /\ last.ok
    /\ last.callees = <<S>>
    /\ state.protocol_addresses = Initialized(P, "I2")

----
StateGated ==
    {"setImplementationAddress", "setPaused", "updatePlayerState", "updateBattleResult",
     "addPlayer", "view"}

StateAnyPayloads == PlayerOrdPayloads \cup PlayerPayloads \cup {<<"0">>, <<"1">>, <<"I2">>}

----
\* Decodable parameters of the business entries of the Implementation.
BusinessInputs(entry) == Payloads(entry) \ NoParam

\* C9: while State's pause flag is true, updatePlayerState,
\* updateBattleResult and addPlayer sent through the Proxy fail with
\* ContractPaused and leave State unmodified; once the Implementation's
\* admin has unpaused, the identical calls succeed.
C9_PausedThenUnpaused ==
    Wired /\ state.paused =>
        \A sender \in Senders, entry \in BusinessEntries :
            \A param \in BusinessInputs(entry) :
                LET r == Invoke(World, sender, P, entry, param, 0)
                    u == Invoke(World, impl[proxy.implementation_address].admin,
                                proxy.implementation_address, "unpause", <<>>, 0)
                IN /\ ~r.ok
                   /\ r.reason = I_ContractPaused
                   /\ r.w.state = state
                   /\ u.ok
                   /\ ~u.w.state.paused
                   /\ Invoke(u.w, sender, P, entry, param, 0).ok

----
\* C10: with all components initialized and not paused, addPlayer(p) sent
\* through the Proxy fails with AlreadyAdded when p has a record in State,
\* and otherwise succeeds and creates the record (Active, NoResult) of p.
C10_AddPlayer ==
    Wired /\ ~state.paused =>
        \A sender \in Senders, p \in AllPlayers :
            LET r == Invoke(World, sender, P, "addPlayer", <<p>>, 0)
            IN IF state.player_data[p] # NoRecord
               THEN ~r.ok /\ r.reason = I_AlreadyAdded
               ELSE /\ r.ok
                    /\ r.w.state.player_data[p] = PlayerData("Active", "NoResult")

----
\* The battle result a player's record holds (NoResult without a record).
StoredResult(p) ==
    IF state.player_data[p] = NoRecord THEN "NoResult" ELSE state.player_data[p].result

\* C11: with all components initialized and not paused, for a player p with
\* a record, updatePlayerState(p, Suspended) sent through the Proxy succeeds
\* and getPlayerData(p) on the Implementation then returns (Suspended, r),
\* r the battle result p had before.
C11_SuspendRoundTrip ==
    Wired /\ ~state.paused =>
        \A sender \in Senders, p \in AllPlayers :
            LET suspended == Tok(Ordinal(ImplPlayerState, "Suspended"))
                u == Invoke(World, sender, P, "updatePlayerState", <<p, suspended>>, 0)
                g == Invoke(u.w, sender, proxy.implementation_address,
                            "getPlayerData", <<p>>, 0)
            IN state.player_data[p] # NoRecord =>
                   /\ u.ok
                   /\ g.ok
                   /\ g.rv = <<suspended, Tok(Ordinal(BattleResult, StoredResult(p)))>>

----
ProxyAdminGated == {"updateAdmin", "updateImplementation"}

ImplAdminGated == {"updateAdmin", "pause", "unpause"}

AdminPayloads == {<<a>> : a \in Addresses} \cup NoParam

\* C12: after a successful updateAdmin(new_admin) on the Proxy or on an
\* Implementation, new_admin different from the previous admin, every
\* admin-gated entry of that component fails with OnlyAdmin for the previous
\* admin and never fails with OnlyAdmin for new_admin.
C12_AdminRotation ==
    /\ \A sender \in Addresses, new \in Addresses :
           LET u == Invoke(World, sender, P, "updateAdmin", <<new>>, 0)
           IN u.ok /\ new # proxy.admin =>
                  \A entry \in ProxyAdminGated, param \in AdminPayloads :
                      LET old == Invoke(u.w, proxy.admin, P, entry, param, 0)
                          now == Invoke(u.w, new, P, entry, param, 0)
                      IN /\ ~old.ok
                         /\ old.kind = "LogicReject"
                         /\ old.reason = Px_OnlyAdmin
                         /\ old.w = u.w
                         /\ ~(now.kind = "LogicReject" /\ now.reason = Px_OnlyAdmin)
    /\ \A self \in ImplAddrs, sender \in Addresses, new \in Addresses :
           LET u == Invoke(World, sender, self, "updateAdmin", <<new>>, 0)
           IN u.ok /\ new # impl[self].admin =>
                  \A entry \in ImplAdminGated, param \in AdminPayloads :
                      LET old == Invoke(u.w, impl[self].admin, self, entry, param, 0)
                          now == Invoke(u.w, new, self, entry, param, 0)
                      IN /\ ~old.ok
                         /\ old.kind = "LogicReject"
                         /\ old.reason = I_OnlyAdmin
                         /\ old.w = u.w
                         /\ ~(now.kind = "LogicReject" /\ now.reason = I_OnlyAdmin)

\* The admin of the Proxy was rotated from the deployer to a2, and an
\* admin-gated entry then let its sender through to the parameter decoding.
C12_Witness ==
    /\ proxy.admin = "a2"
    /\ proxy.admin # Deployer
    /\ last.to = P
    /\ last.entry = "updateImplementation"
    /\ ~last.ok
    /\ last.reason = Px_ParseParams

----
\* The parameters an entry point is sent in the properties below.
EntryPayloads(entry) ==
    CASE entry = "updateAdmin" -> AdminPayloads
      [] entry = "initialize" -> {<<P, S>>, <<P, "I1">>, <<X, X>>} \cup NoParam
      [] entry \in {"updateImplementation", "setImplementationAddress"} ->
             {<<i>> : i \in ImplAddrs \cup {X}} \cup NoParam
      [] entry = "setPaused" -> {<<"0">>, <<"1">>} \cup NoParam
      [] OTHER -> Payloads(entry)

\* The entry names sent to the Proxy: its own, and names that reach the
\* fallback (those of the Implementation, and one nobody has).
ProxyCallNames == ProxyEntries \cup ImplEntries \cup {"foo"}

\* C13: the admin of the Proxy changes only in a successful updateAdmin on
\* the Proxy sent by the Proxy's admin, the admin of an Implementation only
\* in a successful updateAdmin on that Implementation sent by its admin; no
\* call on the Proxy (fallback and updateImplementation included) changes an
\* Implementation's admin and no call on an Implementation or on State
\* changes the Proxy's admin.
C13_AdminFrame ==
    /\ \A sender \in Addresses, entry \in ProxyCallNames :
           \A param \in EntryPayloads(entry) :
               LET r == Invoke(World, sender, P, entry, param, 0)
               IN /\ \A i \in ImplAddrs : r.w.impl[i].admin = impl[i].admin
                  /\ r.w.proxy.admin # proxy.admin =>
                         r.ok /\ entry = "updateAdmin" /\ sender = proxy.admin
    /\ \A self \in ImplAddrs, sender \in Addresses, entry \in ImplEntries :
           \A param \in EntryPayloads(entry) :
               LET r == Invoke(World, sender, self, entry, param, 0)
               IN /\ r.w.proxy.admin = proxy.admin
                  /\ \A i \in ImplAddrs \ {self} : r.w.impl[i].admin = impl[i].admin
                  /\ r.w.impl[self].admin # impl[self].admin =>
                         r.ok /\ entry = "updateAdmin" /\ sender = impl[self].admin
    /\ \A sender \in Addresses, entry \in StateEntries :
           \A param \in EntryPayloads(entry) :
               LET r == Invoke(World, sender, S, entry, param, 0)
               IN /\ r.w.proxy.admin = proxy.admin
                  /\ \A i \in ImplAddrs : r.w.impl[i].admin = impl[i].admin

\* The admin of I1 was rotated while the Proxy kept its own: they diverge.
C13_Witness ==
    /\ last.to = "I1"
    /\ last.entry = "updateAdmin"
    /\ last.ok
    /\ impl["I1"].admin = "a2"
    /\ proxy.admin = Deployer

----
NewImplPayloads == {<<c>> : c \in ContractAddrs} \cup NoParam

\* C14: on an initialized State, setImplementationAddress succeeds only for
\* the recorded Proxy address as sender; any other sender fails with
\* OnlyProxy and changes nothing; a success records the new implementation
\* address and keeps the recorded Proxy address, the player records and the
\* pause flag.
C14_SetImplementationAddress ==
    state.protocol_addresses.init =>
        \A sender \in Addresses, param \in NewImplPayloads :
            LET pa == state.protocol_addresses
                r == Invoke(World, sender, S, "setImplementationAddress", param, 0)
            IN IF sender # pa.a
               THEN /\ ~r.ok
                    /\ r.kind = "LogicReject"
                    /\ r.reason = S_OnlyProxy
                    /\ r.w = World
               ELSE /\ r.ok = (param # <<>>)
                    /\ r.ok =>
                           /\ r.w.state.protocol_addresses = Initialized(pa.a, param[1])
                           /\ r.w.state.player_data = state.player_data
                           /\ r.w.state.paused = state.paused
                           /\ r.w.proxy = proxy
                           /\ r.w.impl = impl

\* The Proxy had State record I2 while the contract was paused.
C14_Witness ==
    /\ last.to = P
    /\ last.entry = "updateImplementation"
    /\ last.ok
    /\ last.callees = <<S>>
    /\ state.protocol_addresses = Initialized(P, "I2")
    /\ state.paused

----
\* State records the Proxy and the implementation address the Proxy stores.
Consistent ==
    /\ state.protocol_addresses.init
    /\ state.protocol_addresses.a = P
    /\ state.protocol_addresses.b = proxy.implementation_address

----
\* C16: a successful updateImplementation on the Proxy leaves every player
\* record and the pause flag of State as they were.
C16_UpgradeKeepsData ==
    \A sender \in Addresses, param \in NewImplPayloads :
        LET r == Invoke(World, sender, P, "updateImplementation", param, 0)
        IN r.ok => /\ r.w.state.player_data = state.player_data
                   /\ r.w.state.paused = state.paused

\* An upgrade to I2 with a record of a1 in State.
C16_Witness ==
    /\ last.to = P
    /\ last.entry = "updateImplementation"
    /\ last.ok
    /\ proxy.implementation_address = "I2"
    /\ state.player_data["a1"] # NoRecord

----
\* Some call of the chain is this entry of State, made by the Implementation
\* that State records.
CallsStateAsImplementation(r, entries) ==
    \E i \in 1..Len(r.calls) :
        /\ r.calls[i].to = S
        /\ r.calls[i].from = state.protocol_addresses.b
        /\ r.calls[i].entry \in entries

\* C17: State's pause flag changes only in a successful setPaused of State
\* called by the Implementation recorded in State; an Implementation makes
\* that call only in pause (setting true) and unpause (setting false), sent
\* by its current admin; pause and unpause sent by anyone else fail with
\* OnlyAdmin and leave the flag unchanged.
C17_PauseFlag ==
    /\ \A sender \in Addresses, entry \in ProxyCallNames :
           \A param \in EntryPayloads(entry) :
               LET r == Invoke(World, sender, P, entry, param, 0)
               IN r.w.state.paused # state.paused =>
                      /\ r.ok
                      /\ entry \in {"pause", "unpause"}
                      /\ impl[proxy.implementation_address].admin = P
                      /\ CallsStateAsImplementation(r, {"setPaused"})
    /\ \A self \in ImplAddrs, sender \in Addresses, entry \in ImplEntries :
           \A param \in EntryPayloads(entry) :
               LET r == Invoke(World, sender, self, entry, param, 0)
               IN /\ r.w.state.paused # state.paused =>
                         /\ r.ok
                         /\ entry \in {"pause", "unpause"}
                         /\ sender = impl[self].admin
                         /\ r.w.state.paused = (entry = "pause")
                         /\ CallsStateAsImplementation(r, {"setPaused"})
                  /\ entry \in {"pause", "unpause"} /\ sender # impl[self].admin =>
                         /\ ~r.ok
                         /\ r.kind = "LogicReject"
                         /\ r.reason = I_OnlyAdmin
                         /\ r.w = World
    /\ \A sender \in Addresses, entry \in StateEntries :
           \A param \in EntryPayloads(entry) :
               LET r == Invoke(World, sender, S, entry, param, 0)
               IN r.w.state.paused # state.paused =>
                      /\ r.ok
                      /\ entry = "setPaused"
                      /\ sender = state.protocol_addresses.b

\* The admin of I1 paused the contract.
C17_Witness ==
    /\ last.to = "I1"
    /\ last.entry = "pause"
    /\ last.ok
    /\ last.callees = <<S>>
    /\ state.paused

----
RecordMutations == {"updatePlayerState", "updateBattleResult", "addPlayer"}

\* The admins of the Proxy and of the Implementation instances.
Admins == {proxy.admin} \cup {impl[i].admin : i \in ImplAddrs}

\* C18 as stated: a transaction sent by an account that is neither the
\* Proxy's admin nor an Implementation's admin never creates or changes a
\* player record in State.
C18_OnlyAdminsChangeRecords ==
    \A sender \in Accounts \ Admins, entry \in ProxyCallNames :
        \A param \in EntryPayloads(entry) :
            Invoke(World, sender, P, entry, param, 0).w.state.player_data
                = state.player_data

\* C18 (amended): the player records change only in a successful
\* updatePlayerState, updateBattleResult or addPlayer of State called by the
\* Implementation recorded in State, which an Implementation calls only in
\* its entry of that name, sent by the Proxy address it records, while State
\* is not paused.  The sender of the transaction is not checked against any
\* admin: with the components initialized and not paused, every account
\* changes a record by sending updateBattleResult to the Proxy.
C18_RecordWriters ==
    /\ \A sender \in Addresses, entry \in ProxyCallNames :
           \A param \in EntryPayloads(entry) :
               LET r == Invoke(World, sender, P, entry, param, 0)
               IN r.w.state.player_data # state.player_data =>
                      /\ r.ok
                      /\ entry \in RecordMutations
                      /\ ~state.paused
                      /\ impl[proxy.implementation_address].protocol_addresses.a = P
                      /\ CallsStateAsImplementation(r, {entry})
    /\ \A self \in ImplAddrs, sender \in Addresses, entry \in ImplEntries :
           \A param \in EntryPayloads(entry) :
               LET r == Invoke(World, sender, self, entry, param, 0)
               IN r.w.state.player_data # state.player_data =>
                      /\ r.ok
                      /\ entry \in RecordMutations
                      /\ ~state.paused
                      /\ sender = impl[self].protocol_addresses.a
                      /\ CallsStateAsImplementation(r, {entry})
    /\ \A sender \in Addresses, entry \in StateEntries :
           \A param \in EntryPayloads(entry) :
               LET r == Invoke(World, sender, S, entry, param, 0)
               IN r.w.state.player_data # state.player_data =>
                      /\ r.ok
                      /\ entry \in RecordMutations
                      /\ sender = state.protocol_addresses.b
    /\ Wired /\ ~state.paused =>
           \A sender \in Accounts, p \in AllPlayers :
               LET r == Invoke(World, sender, P, "updateBattleResult",
                               <<p, Tok(Ordinal(BattleResult, "Win"))>>, 0)
               IN r.ok /\ r.w.state.player_data[p].result = "Win"

\* A record was written through the Proxy while the deployer is the admin
\* of all components, so that a2 is the admin of none.
C18_Witness ==
    /\ last.to = P
    /\ last.entry = "updateBattleResult"
    /\ last.ok
    /\ Admins = {Deployer}
    /\ state.player_data["a2"] # NoRecord
    /\ state.player_data["a1"] = NoRecord

----
\* The addresses that have a record in this State.
Recorded(st) == {p \in Addresses : st.player_data[p] # NoRecord}

\* C19: no transaction removes an address from the set of addresses that
\* have a record in State.
C19_RecordsNeverDeleted == [][Recorded(state) \subseteq Recorded(state')]_vars

\* A second record was created while the first one stayed.
C19_Witness ==
    /\ Recorded(state) = {"a1", "a2"}
    /\ last.ok
    /\ last.entry = "updatePlayerState"
    /\ last.to = P

----
----
\* C21: Proxy.initialize takes effect at most once.  A successful
\* Proxy.initialize leaves State initialized, State stays initialized in
\* every later transaction, and on an initialized State every
\* Proxy.initialize by any sender fails (with the Proxy's
\* InvokeContractError, the Proxy having no guard of its own: the call
\* reaches State), appends no event and changes nothing in the Proxy, the
\* Implementation instances or State.
C21_InitializeTakesEffectOnce ==
    /\ [](state.protocol_addresses.init =>
              \A sender \in Addresses, param \in {<<>>, <<"0">>} :
                  LET r == Invoke(World, sender, P, "initialize", param, 0)
                  IN /\ ~r.ok
                     /\ r.kind = "LogicReject"
                     /\ r.reason = Px_InvokeContractError
                     /\ r.events = <<>>
                     /\ r.w = World
                     /\ r.calls # <<>>
                     /\ r.calls[1].to = proxy.state_address)
    /\ [][/\ last'.to = P /\ last'.entry = "initialize" /\ last'.ok =>
                 state'.protocol_addresses.init
          /\ state.protocol_addresses.init => state'.protocol_addresses.init]_vars

\* With the components wired by an earlier initialize, a further
\* Proxy.initialize was refused after its call to State.
C21_Witness ==
    /\ last.to = P
    /\ last.entry = "initialize"
    /\ ~last.ok
    /\ last.reason = Px_InvokeContractError
    /\ last.callees = <<S>>
    /\ Wired

----
\* C22: a transaction is all-or-nothing across its call chain.  A failed
\* transaction leaves the Proxy, the Implementation instances and State as
\* they were; a call that fails reports the world it started from and no
\* event; a Proxy.initialize in which State.initialize succeeds and
\* Implementation.initialize fails is a failure that leaves State
\* Uninitialized; a Proxy.updateImplementation whose call to State fails is
\* a failure that leaves the Proxy's implementation address unchanged.
C22_AllOrNothing ==
    /\ [](/\ \A sender \in Addresses, entry \in ProxyCallNames :
                 \A param \in EntryPayloads(entry) :
                     LET r == Invoke(World, sender, P, entry, param, 0)
                     IN ~r.ok => r.w = World /\ r.events = <<>>
          /\ \A to \in ImplAddrs \cup {S}, sender \in Addresses,
                entry \in ImplEntries \cup StateEntries :
                 \A param \in EntryPayloads(entry) :
                     LET r == Invoke(World, sender, to, entry, param, 0)
                     IN ~r.ok => r.w = World /\ r.events = <<>>
          /\ \A sender \in Addresses :
                 LET i == proxy.implementation_address
                     r1 == Invoke(World, P, proxy.state_address, "initialize",
                                  <<P, i>>, 0)
                     r2 == Invoke(r1.w, P, i, "initialize",
                                  <<P, proxy.state_address>>, 0)
                     r == Invoke(World, sender, P, "initialize", <<>>, 0)
                 IN r1.ok /\ ~r2.ok =>
                        /\ ~r.ok
                        /\ r.w = World
                        /\ ~r.w.state.protocol_addresses.init
          /\ \A new \in ContractAddrs :
                 LET w1 == [World EXCEPT !.proxy.implementation_address = new]
                     c == Invoke(w1, P, proxy.state_address,
                                 "setImplementationAddress", <<new>>, 0)
                     r == Invoke(World, proxy.admin, P, "updateImplementation",
                                 <<new>>, 0)
                 IN ~c.ok =>
                        /\ ~r.ok
                        /\ r.w.proxy.implementation_address
                               = proxy.implementation_address
                        /\ r.w = World)
    /\ [][~last'.ok => proxy' = proxy /\ impl' = impl /\ state' = state]_vars

\* I1 was initialized on its own, so that Proxy.initialize failed in its
\* second call, after State.initialize: State is still Uninitialized.
C22_Witness ==
    /\ last.to = P
    /\ last.entry = "initialize"
    /\ ~last.ok
    /\ last.callees = <<S, "I1">>
    /\ ~state.protocol_addresses.init
    /\ impl["I1"].protocol_addresses.init

----
\* The raw parameters sent to logEvent.
LogPayloads == {<<>>, <<"0">>, <<"a1", "2">>, <<"NewAdmin", "a2">>}

\* C23: logEvent on the Proxy succeeds only for the implementation address
\* the Proxy stores as sender, and then appends exactly one log record, the
\* raw parameter; every other sender (the Proxy's admin, an earlier
\* implementation) fails with OnlyImplementation and appends nothing;
\* logEvent never changes the Proxy, the Implementations or State.
C23_LogEvent ==
    \A sender \in Addresses, param \in LogPayloads :
        LET r == Invoke(World, sender, P, "logEvent", param, 0)
        IN /\ r.w = World
           /\ IF sender = proxy.implementation_address
              THEN /\ r.ok
                   /\ r.events = <<[by |-> P, data |-> param]>>
              ELSE /\ ~r.ok
                   /\ r.kind = "LogicReject"
                   /\ r.reason = Px_OnlyImplementation
                   /\ r.events = <<>>

\* After an upgrade to the contract X, X logged through the Proxy.
C23_Witness ==
    /\ last.to = P
    /\ last.entry = "logEvent"
    /\ last.ok
    /\ proxy.implementation_address = X
    /\ proxy.admin = Deployer

----
\* The call fails with the caller's own error code, serialized as its own
\* error value.
FailsWith(r, code) ==
    /\ ~r.ok
    /\ r.kind = "LogicReject"
    /\ r.reason = code
    /\ r.rv = <<Tok((0 - code) - 1)>>
    /\ r.w = World

\* The entry of State an entry of the Implementation calls first, after the
\* pause check.
FirstStateCall(entry) == IF entry = "addPlayer" THEN "isAdded" ELSE entry

\* C24: outside the fallback, a failed cross-component call is reported as
\* the caller's own InvokeContractError, whatever the callee raised:
\* Proxy.initialize (either call), Proxy.updateImplementation, and on an
\* Implementation the pause check, the call to State of a business entry,
\* pause and unpause, and getPlayerData.
C24_LocalInvocationError ==
    /\ \A sender \in Addresses :
           LET i == proxy.implementation_address
               r1 == Invoke(World, P, proxy.state_address, "initialize", <<P, i>>, 0)
               r2 == Invoke(r1.w, P, i, "initialize", <<P, proxy.state_address>>, 0)
               r == Invoke(World, sender, P, "initialize", <<>>, 0)
           IN ~r1.ok \/ ~r2.ok => FailsWith(r, Px_InvokeContractError)
    /\ \A new \in ContractAddrs :
           LET w1 == [World EXCEPT !.proxy.implementation_address = new]
               c == Invoke(w1, P, proxy.state_address, "setImplementationAddress",
                           <<new>>, 0)
               r == Invoke(World, proxy.admin, P, "updateImplementation", <<new>>, 0)
           IN ~c.ok => FailsWith(r, Px_InvokeContractError)
    /\ \A self \in ImplAddrs :
           LET pa == impl[self].protocol_addresses
               g == Invoke(World, self, pa.b, "getPaused", <<>>, 0)
           IN pa.init =>
                  /\ \A entry \in BusinessEntries : \A param \in BusinessInputs(entry) :
                         LET r == Invoke(World, pa.a, self, entry, param, 0)
                             c == Invoke(World, self, pa.b, FirstStateCall(entry),
                                         param, 0)
                         IN /\ ~g.ok => FailsWith(r, I_InvokeContractError)
                            /\ g.ok /\ g.rv = <<"0">> /\ ~c.ok =>
                                   FailsWith(r, I_InvokeContractError)
                  /\ \A entry \in {"pause", "unpause"} :
                         LET r == Invoke(World, impl[self].admin, self, entry, <<>>, 0)
                             c == Invoke(World, self, pa.b, "setPaused",
                                         <<BoolTok(entry = "pause")>>, 0)
                         IN ~c.ok => FailsWith(r, I_InvokeContractError)
                  /\ \A sender \in Addresses, param \in PlayerPayloads \ NoParam :
                         LET r == Invoke(World, sender, self, "getPlayerData", param, 0)
                             c == Invoke(World, self, pa.b, "getPlayerData", param, 0)
                         IN ~c.ok => FailsWith(r, I_InvokeContractError)

\* After the upgrade to I2, I1's admin sent pause to I1: State refused I1
\* with OnlyImplementation and I1 failed with its InvokeContractError.
C24_Witness ==
    /\ last.to = "I1"
    /\ last.entry = "pause"
    /\ ~last.ok
    /\ last.reason = I_InvokeContractError
    /\ last.callees = <<S>>
    /\ state.protocol_addresses = Initialized(P, "I2")
    /\ impl["I1"].protocol_addresses = Initialized(P, S)

----
\* Parameters no entry of State decodes: no bytes, and a token that is no
\* address, no bool and no enum ordinal.
Undecodable == {<<>>, <<"zz">>}

\* The entries of State that decode a parameter and run a logical check.
StateChecked ==
    {"initialize", "setImplementationAddress", "setPaused", "updatePlayerState",
     "updateBattleResult", "addPlayer"}

\* C25 as stated: every State operation decodes its parameter before its
\* logical checks, so that an undecodable parameter fails with the decode
\* error whatever the guard, the initialization check or the sender check
\* would say.
C25_ParameterValidatedFirst ==
    \A sender \in Addresses, entry \in StateChecked, param \in Undecodable :
        FailsWith(Invoke(World, sender, S, entry, param, 0), S_ParseParamsError)

\* C25 (amended): the logical checks come first.  With an undecodable
\* parameter, initialize fails with AlreadyInitialized on an initialized
\* State and with the decode error on an uninitialized one; the other
\* entries fail with UnInitialized on an uninitialized State, else with
\* OnlyProxy or OnlyImplementation for a sender other than the recorded one,
\* and with the decode error only when both checks pass.
C25_ChecksBeforeDecoding ==
    \A sender \in Addresses, entry \in StateChecked, param \in Undecodable :
        LET r == Invoke(World, sender, S, entry, param, 0)
            pa == state.protocol_addresses
        IN FailsWith(r,
               CASE entry = "initialize" ->
                        IF pa.init THEN S_AlreadyInitialized ELSE S_ParseParamsError
                 [] entry # "initialize" /\ ~pa.init -> S_UnInitialized
                 [] entry = "setImplementationAddress" /\ pa.init ->
                        IF sender # pa.a THEN S_OnlyProxy ELSE S_ParseParamsError
                 [] OTHER ->
                        IF sender # pa.b THEN S_OnlyImplementation
                        ELSE S_ParseParamsError)

\* setImplementationAddress carries no decodable parameter in the bootstrap
\* scenario: sent to an initialized State by a sender that is not the
\* recorded Proxy, it failed with OnlyProxy, not with the decode error.
C25_Witness ==
    /\ scn = "bootstrap"
    /\ last.to = S
    /\ last.entry = "setImplementationAddress"
    /\ ~last.ok
    /\ last.reason = S_OnlyProxy
    /\ state.protocol_addresses.init

----
\* The return value of getPlayerData for a stored record.
StoredData(p) ==
    <<Tok(Ordinal(StatePlayerState, state.player_data[p].state)),
      Tok(Ordinal(BattleResult, state.player_data[p].result))>>

\* C26: on an uninitialized State, view fails with UnInitialized while
\* getPaused and getPlayerData succeed and return what is stored (getPaused
\* false on a fresh instance); on an initialized State, view returns the
\* recorded Proxy address, the recorded implementation address and the
\* pause flag; none of the three changes anything.
C26_StateReads ==
    \A sender \in Addresses :
        LET v == Invoke(World, sender, S, "view", <<>>, 0)
            g == Invoke(World, sender, S, "getPaused", <<>>, 0)
            pa == state.protocol_addresses
        IN /\ v.w = World
           /\ g.w = World
           /\ g.ok
           /\ g.rv = <<BoolTok(state.paused)>>
           /\ state = State_new => g.rv = <<"0">>
           /\ IF pa.init
              THEN v.ok /\ v.rv = <<pa.a, pa.b, BoolTok(state.paused)>>
              ELSE /\ ~v.ok
                   /\ v.kind = "LogicReject"
                   /\ v.reason = S_UnInitialized
           /\ \A p \in AllPlayers :
                  LET d == Invoke(World, sender, S, "getPlayerData", <<p>>, 0)
                  IN /\ d.w = World
                     /\ ~pa.init => d.ok
                     /\ state.player_data[p] # NoRecord =>
                            d.ok /\ d.rv = StoredData(p)

----
\* C27: a player without a record in State is observed as not added.  On an
\* Implementation that is initialized with State, getPlayerData for an
\* address without a record succeeds and reports the lifecycle NotAdded,
\* and leaves the address without a record.
C27_NoRecordIsNotAdded ==
    \A self \in ImplAddrs, sender \in Addresses, p \in AllPlayers :
        LET r == Invoke(World, sender, self, "getPlayerData", <<p>>, 0)
        IN /\ impl[self].protocol_addresses.init
           /\ impl[self].protocol_addresses.b = S
           /\ state.player_data[p] = NoRecord
           => /\ r.ok
              /\ r.rv[1] = Tok(Ordinal(ImplPlayerState, "NotAdded"))
              /\ r.w.state.player_data[p] = NoRecord

----
\* The parameters a constructor is sent.
InitPayloads == {<<>>, <<"I1">>, <<"I1", S>>, <<"I2", X>>, <<X, X>>, <<"a1", S>>}

\* The parameter carries two contract addresses.
TwoAddresses(param) ==
    Len(param) >= 2 /\ param[1] \in ContractAddrs /\ param[2] \in ContractAddrs

\* What C28 says of a new State and a new Implementation.
FreshStateAndImplementation(origin, param) ==
    LET st == contract_state_init(origin, param)
    IN /\ st.ok
       /\ st.state.protocol_addresses = UnInitialized
       /\ \A p \in Addresses : st.state.player_data[p] = NoRecord
       /\ st.state.paused = FALSE
       /\ st.calls = <<>>
       /\ \A self \in ImplAddrs :
              LET im == contract_init(self, origin, param)
              IN /\ im.ok
                 /\ im.state.protocol_addresses = UnInitialized
                 /\ im.state.admin = origin
                 /\ im.calls = <<>>

\* What C28 says of a new Proxy.
FreshProxy(origin, param) ==
    LET px == contract_proxy_init(origin, param)
    IN /\ px.ok
       /\ px.state.implementation_address = param[1]
       /\ px.state.state_address = param[2]
       /\ px.state.admin = origin
       /\ px.calls = <<>>

\* The deployed system, before its first transaction, is what the
\* constructors returned.
Deployed ==
    last = NoTx =>
        /\ state = [protocol_addresses |-> UnInitialized,
                    player_data |-> [p \in Addresses |-> NoRecord],
                    paused |-> FALSE]
        /\ \A i \in ImplAddrs :
               impl[i] = [admin |-> Deployer, protocol_addresses |-> UnInitialized]
        /\ proxy = [admin |-> Deployer, implementation_address |-> "I1",
                    state_address |-> S]

----
\* The record of p once a missing one is created with the defaults.
WithDefaults(p) ==
    IF state.player_data[p] = NoRecord THEN PlayerData("Active", "NoResult")
    ELSE state.player_data[p]

\* The call changed nothing but, at most, the record of p in State.
OnlyRecordOf(p, r) ==
    /\ r.w.proxy = proxy
    /\ r.w.impl = impl
    /\ r.w.state.paused = state.paused
    /\ r.w.state.protocol_addresses = state.protocol_addresses
    /\ \A q \in Addresses \ {p} : r.w.state.player_data[q] = state.player_data[q]

\* C29: on an initialized State, called by the recorded Implementation,
\* updatePlayerState(p, s) sets the lifecycle of p and keeps its battle
\* result, updateBattleResult(p, b) sets the battle result of p and keeps
\* its lifecycle, addPlayer(p) creates (Active, NoResult) for a p without a
\* record and changes nothing for a p with one; each creates a missing
\* record with (Active, NoResult) first, and none changes another record,
\* the pause flag, the address pair, the Proxy or an Implementation.
C29_StateMutationFrame ==
    state.protocol_addresses.init =>
        \A p \in AllPlayers :
            LET sender == state.protocol_addresses.b
            IN /\ \A k \in 1..Len(StatePlayerState) :
                      LET r == Invoke(World, sender, S, "updatePlayerState",
                                      <<p, Tok(k - 1)>>, 0)
                      IN /\ r.ok
                         /\ r.w.state.player_data[p]
                                = PlayerData(StatePlayerState[k], WithDefaults(p).result)
                         /\ OnlyRecordOf(p, r)
               /\ \A k \in 1..Len(BattleResult) :
                      LET r == Invoke(World, sender, S, "updateBattleResult",
                                      <<p, Tok(k - 1)>>, 0)
                      IN /\ r.ok
                         /\ r.w.state.player_data[p]
                                = PlayerData(WithDefaults(p).state, BattleResult[k])
                         /\ OnlyRecordOf(p, r)
               /\ LET r == Invoke(World, sender, S, "addPlayer", <<p>>, 0)
                  IN /\ r.ok
                     /\ r.w.state.player_data[p] = WithDefaults(p)
                     /\ state.player_data[p] # NoRecord => r.w = World
                     /\ OnlyRecordOf(p, r)

\* The Implementation recorded in State set the battle result of a1, whose
\* lifecycle it had set before: the lifecycle is kept, and a2 has its own
\* record.
C29_Witness ==
    /\ last.to = P
    /\ last.entry = "updateBattleResult"
    /\ last.ok
    /\ last.callees = <<"I1", S, S>>
    /\ state.player_data["a1"] = PlayerData("Suspended", "Win")
    /\ state.player_data["a2"] = PlayerData("Active", "Loss")

----
\* C30: enumerated values cross from the Implementation to State unchanged.
\* For s in {Active, Suspended} a successful updatePlayerState(p, s) on an
\* Implementation leaves State's record of p with lifecycle s, and for b in
\* {NoResult, Win, Loss} a successful updateBattleResult(p, b) leaves it
\* with result b.
C30_ValuesCrossUnchanged ==
    \A self \in ImplAddrs, sender \in Addresses, p \in AllPlayers :
        /\ \A s \in {"Active", "Suspended"} :
               LET r == Invoke(World, sender, self, "updatePlayerState",
                               <<p, Tok(Ordinal(ImplPlayerState, s))>>, 0)
               IN r.ok => r.w.state.player_data[p].state = s
        /\ \A k \in 1..Len(BattleResult) :
               LET r == Invoke(World, sender, self, "updateBattleResult",
                               <<p, Tok(k - 1)>>, 0)
               IN r.ok => r.w.state.player_data[p].result = BattleResult[k]

----
\* The only call of the chain is the read of the pause flag.
OnlyPauseRead(r, self, state_address) ==
    /\ Len(r.calls) = 1
    /\ r.calls[1] = Call(self, state_address, "getPaused", <<>>, 0)

\* C31: updatePlayerState, updateBattleResult and addPlayer of an
\* Implementation check, in this order: initialized (UnInitialized), the
\* sender is the recorded Proxy (OnlyProxy), State's pause flag is read and
\* false (the operation fails if the read fails, ContractPaused if the flag
\* is set), the parameter decodes; then addPlayer asks State whether the
\* player is added, and only then comes the mutation of State.  A failure
\* at any step leaves State as it was.  Sent through the Proxy to a paused
\* system, an undecodable parameter fails with ContractPaused.
C31_CheckOrder ==
    /\ \A self \in ImplAddrs, sender \in Addresses, entry \in BusinessEntries :
           \A param \in Payloads(entry) \cup Undecodable :
               LET pa == impl[self].protocol_addresses
                   r == Invoke(World, sender, self, entry, param, 0)
                   g == Invoke(World, self, pa.b, "getPaused", <<>>, 0)
               IN IF ~pa.init
                  THEN FailsWith(r, I_UnInitialized) /\ r.calls = <<>>
                  ELSE IF sender # pa.a
                  THEN FailsWith(r, I_OnlyProxy) /\ r.calls = <<>>
                  ELSE IF ~g.ok
                  THEN /\ FailsWith(r, I_InvokeContractError)
                       /\ OnlyPauseRead(r, self, pa.b)
                  ELSE IF g.rv = <<"1">>
                  THEN /\ FailsWith(r, I_ContractPaused)
                       /\ OnlyPauseRead(r, self, pa.b)
                  ELSE IF param \in Undecodable
                  THEN /\ FailsWith(r, I_ParseParamsError)
                       /\ OnlyPauseRead(r, self, pa.b)
                  ELSE /\ Len(r.calls) >= 2
                       /\ r.calls[1].entry = "getPaused"
                       /\ r.calls[2].to = pa.b
                       /\ r.calls[2].entry = FirstStateCall(entry)
                       /\ \A i \in 3..Len(r.calls) : r.calls[i].entry = entry
                       /\ ~r.ok => r.w = World
    /\ Wired /\ state.paused =>
           \A sender \in Addresses, entry \in BusinessEntries, param \in Undecodable :
               LET r == Invoke(World, sender, P, entry, param, 0)
               IN /\ ~r.ok
                  /\ r.reason = I_ContractPaused
                  /\ r.w = World

\* The admin scenario sends addPlayer no decodable parameter: sent to the
\* Proxy of a paused system, it failed in the Implementation with
\* ContractPaused, after the read of the flag.
C31_Witness ==
    /\ scn = "admin"
    /\ last.to = P
    /\ last.entry = "addPlayer"
    /\ ~last.ok
    /\ last.reason = I_ContractPaused
    /\ last.callees = <<"I1", S>>
    /\ state.paused

----
\* State, or the Implementation the Proxy stores, is initialized.
InitializedByAnyone ==
    \/ state.protocol_addresses.init
    \/ /\ proxy.implementation_address \in ImplAddrs
       /\ impl[proxy.implementation_address].protocol_addresses.init

\* C32: initialize on State and on an Implementation checks no sender: on an
\* Uninitialized instance it succeeds for every sender and every address
\* pair, and records the pair.  Once State or the Proxy's Implementation is
\* initialized, by whomever, every Proxy.initialize fails, now and after
\* every later transaction.  The Proxy address State records never changes
\* and the pair an Implementation records never changes; when State records
\* a Proxy address other than the Proxy, setImplementationAddress fails for
\* every sender but that address, and updateImplementation on the Proxy
\* fails for every sender, the Proxy's admin included.
C32_InitializeFrontRun ==
    /\ [](/\ \A sender \in Addresses, pair \in AddressPairs :
                 /\ ~state.protocol_addresses.init =>
                        LET r == Invoke(World, sender, S, "initialize", pair, 0)
                        IN /\ r.ok
                           /\ r.w.state.protocol_addresses
                                  = Initialized(pair[1], pair[2])
                 /\ \A self \in ImplAddrs :
                        ~impl[self].protocol_addresses.init =>
                            LET r == Invoke(World, sender, self, "initialize", pair, 0)
                            IN /\ r.ok
                               /\ r.w.impl[self].protocol_addresses
                                      = Initialized(pair[1], pair[2])
          /\ InitializedByAnyone =>
                 \A sender \in Addresses :
                     LET r == Invoke(World, sender, P, "initialize", <<>>, 0)
                     IN ~r.ok /\ r.w = World
          /\ state.protocol_addresses.init /\ state.protocol_addresses.a # P =>
                 \A sender \in Addresses, param \in NewImplPayloads :
                     LET r == Invoke(World, sender, P, "updateImplementation", param, 0)
                         d == Invoke(World, sender, S, "setImplementationAddress",
                                     param, 0)
                     IN /\ ~r.ok
                        /\ r.w = World
                        /\ sender = proxy.admin /\ param # <<>> =>
                               r.reason = Px_InvokeContractError
                        /\ sender # state.protocol_addresses.a => ~d.ok /\ d.w = World)
    /\ [][/\ InitializedByAnyone => InitializedByAnyone'
          /\ state.protocol_addresses.init =>
                 state'.protocol_addresses.a = state.protocol_addresses.a
          /\ \A i \in ImplAddrs :
                 impl[i].protocol_addresses.init =>
                     impl'[i].protocol_addresses = impl[i].protocol_addresses]_vars

\* An account initialized State with the pair (X, I2) before the Proxy did:
\* Proxy.initialize is refused by State, while I1 is still Uninitialized.
C32_Witness ==
    /\ last.to = P
    /\ last.entry = "initialize"
    /\ ~last.ok
    /\ last.callees = <<S>>
    /\ state.protocol_addresses = Initialized(X, "I2")
    /\ ~impl["I1"].protocol_addresses.init

----
\* C33: a successful updateAdmin(new_admin) on the Proxy or on an
\* Implementation appends exactly one event, NewAdmin(new_admin), logged by
\* the contract called; a successful updateImplementation(new_impl) on the
\* Proxy appends exactly one event, NewImplementation(new_impl); a call
\* that fails (OnlyAdmin, undecodable parameter, failed call to State)
\* appends none.  updateAdmin succeeds for the admin with a decodable
\* parameter.
C33_Events ==
    /\ \A sender \in Addresses, param \in AdminPayloads \cup Undecodable :
           /\ LET r == Invoke(World, sender, P, "updateAdmin", param, 0)
              IN /\ r.ok = (sender = proxy.admin /\ param \notin Undecodable)
                 /\ r.events = IF r.ok
                               THEN <<[by |-> P, data |-> <<"NewAdmin", param[1]>>]>>
                               ELSE <<>>
           /\ \A self \in ImplAddrs :
                  LET r == Invoke(World, sender, self, "updateAdmin", param, 0)
                  IN /\ r.ok = (sender = impl[self].admin /\ param \notin Undecodable)
                     /\ r.events = IF r.ok
                                   THEN <<[by |-> self,
                                           data |-> <<"NewAdmin", param[1]>>]>>
                                   ELSE <<>>
    /\ \A sender \in Addresses, param \in NewImplPayloads \cup Undecodable :
           LET r == Invoke(World, sender, P, "updateImplementation", param, 0)
           IN /\ r.ok => sender = proxy.admin
              /\ r.events = IF r.ok
                            THEN <<[by |-> P,
                                    data |-> <<"NewImplementation", param[1]>>]>>
                            ELSE <<>>

\* The admin of the Proxy and the admin of I1 were both rotated to a2.
C33_Witness ==
    /\ last.to = P
    /\ last.entry = "updateAdmin"
    /\ last.ok
    /\ proxy.admin = "a2"
    /\ impl["I1"].admin = "a2"

----
\* The entries the Proxy forwards to its Implementation.
Forwarded == BusinessEntries \cup {"pause", "unpause", "getPlayerData"}

\* C34: a successful updateImplementation on the Proxy leaves State
\* recording the implementation address the Proxy stores; and no call to an
\* Implementation other than the one State records, by any sender, changes
\* State.  For such an Implementation that is initialized with (Proxy,
\* State): pause and unpause by its admin fail after State refused
\* setPaused with OnlyImplementation, and its business operations fail with
\* OnlyProxy for every sender but the Proxy; and a call forwarded by the
\* Proxy never reaches an Implementation other than the one the Proxy
\* stores.
C34_OldImplementationIsPowerless ==
    /\ [](/\ state.protocol_addresses.init =>
                 \A old \in ImplAddrs \ {state.protocol_addresses.b} :
                     /\ \A sender \in Addresses, entry \in ImplEntries :
                            \A param \in EntryPayloads(entry) :
                                Invoke(World, sender, old, entry, param, 0).w.state
                                    = state
                     /\ impl[old].protocol_addresses = Initialized(P, S) =>
                            /\ \A entry \in {"pause", "unpause"} :
                                   LET r == Invoke(World, impl[old].admin, old,
                                                   entry, <<>>, 0)
                                       c == Invoke(World, old, S, "setPaused",
                                                   <<BoolTok(entry = "pause")>>, 0)
                                   IN /\ FailsWith(r, I_InvokeContractError)
                                      /\ Callees(r.calls) = <<S>>
                                      /\ c.reason = S_OnlyImplementation
                            /\ \A sender \in Addresses \ {P}, entry \in BusinessEntries :
                                   \A param \in Payloads(entry) :
                                       FailsWith(Invoke(World, sender, old, entry,
                                                        param, 0), I_OnlyProxy)
          /\ \A old \in ImplAddrs \ {proxy.implementation_address} :
                 \A sender \in Addresses, entry \in Forwarded :
                     \A param \in Payloads(entry) :
                         LET r == Invoke(World, sender, P, entry, param, 0)
                         IN \A i \in 1..Len(r.calls) : r.calls[i].to # old)
    /\ [][last'.to = P /\ last'.entry = "updateImplementation" /\ last'.ok =>
              /\ state'.protocol_addresses.init
              /\ state'.protocol_addresses.b = proxy'.implementation_address]_vars

\* After the upgrade to I2 of a paused system, the admin of I1 sent unpause
\* to I1: State refused I1 and the system is still paused.
C34_Witness ==
    /\ last.to = "I1"
    /\ last.entry = "unpause"
    /\ ~last.ok
    /\ last.reason = I_InvokeContractError
    /\ last.callees = <<S>>
    /\ proxy.implementation_address = "I2"
    /\ state.protocol_addresses = Initialized(P, "I2")
    /\ state.paused

----
\* C35: updateImplementation on the Proxy initializes no Implementation.
\* While the Implementation the Proxy stores is Uninitialized, every
\* business call sent to the Proxy fails with that Implementation's
\* UnInitialized, having reached nothing else; on an initialized State,
\* Proxy.initialize fails and initializes no Implementation; an
\* Implementation becomes initialized only in a successful initialize, sent
\* to it directly once State is initialized; and with State recording the
\* Proxy and the new Implementation, a direct initialize(Proxy, State) on
\* it makes the business calls through the Proxy work.
C35_UpgradeDoesNotInitialize ==
    /\ [](/\ /\ proxy.implementation_address \in ImplAddrs
             /\ ~impl[proxy.implementation_address].protocol_addresses.init
             => \A sender \in Addresses, entry \in BusinessEntries :
                    \A param \in Payloads(entry) :
                        LET r == Invoke(World, sender, P, entry, param, 0)
                        IN /\ ~r.ok
                           /\ r.kind = "LogicReject"
                           /\ r.reason = I_UnInitialized
                           /\ r.rv = <<Tok((0 - I_UnInitialized) - 1)>>
                           /\ Callees(r.calls) = <<proxy.implementation_address>>
                           /\ r.w = World
          /\ state.protocol_addresses.init =>
                 \A sender \in Addresses :
                     LET r == Invoke(World, sender, P, "initialize", <<>>, 0)
                     IN ~r.ok /\ r.w.impl = impl
          /\ /\ Consistent
             /\ ~state.paused
             /\ proxy.implementation_address \in ImplAddrs
             /\ ~impl[proxy.implementation_address].protocol_addresses.init
             => \A sender \in Addresses, caller \in Accounts, p \in AllPlayers :
                    LET r0 == Invoke(World, sender, proxy.implementation_address,
                                     "initialize", <<P, S>>, 0)
                        r == Invoke(r0.w, caller, P, "updateBattleResult",
                                    <<p, "1">>, 0)
                    IN r0.ok /\ r.ok /\ r.w.state.player_data[p].result = "Win")
    /\ [][/\ last'.to = P /\ last'.entry = "updateImplementation" => impl' = impl
          /\ \A i \in ImplAddrs :
                 /\ ~impl[i].protocol_addresses.init
                 /\ impl'[i].protocol_addresses.init
                 => /\ last'.entry = "initialize"
                    /\ last'.ok
                    /\ last'.to \in {i, P}
                    /\ state.protocol_addresses.init => last'.to = i]_vars

\* After the upgrade to the Uninitialized I2, a business call sent to the
\* Proxy reached I2 and failed there with UnInitialized.
C35_Witness ==
    /\ last.to = P
    /\ last.entry = "updateBattleResult"
    /\ ~last.ok
    /\ last.reason = I_UnInitialized
    /\ last.callees = <<"I2">>
    /\ proxy.implementation_address = "I2"
    /\ state.protocol_addresses = Initialized(P, "I2")
    /\ ~impl["I2"].protocol_addresses.init

----
\* C36: pause and unpause are gated neither by the pause flag nor by the
\* Proxy.  For an Implementation that is initialized with State's address
\* and is the implementation State records, pause and unpause sent to it
\* directly by its current admin succeed whatever the flag is, with the one
\* call setPaused to State, and leave the flag true (pause) or false
\* (unpause) and everything else as it was: that admin can always unpause a
\* paused system.
C36_PauseUngated ==
    \A self \in ImplAddrs :
        /\ impl[self].protocol_addresses.init
        /\ impl[self].protocol_addresses.b = S
        /\ state.protocol_addresses.init
        /\ state.protocol_addresses.b = self
        => \A entry \in {"pause", "unpause"}, param \in {<<>>, <<"0">>} :
               LET r == Invoke(World, impl[self].admin, self, entry, param, 0)
               IN /\ r.ok
                  /\ r.w.state = [state EXCEPT !.paused = (entry = "pause")]
                  /\ r.w.proxy = proxy
                  /\ r.w.impl = impl
                  /\ r.calls = <<Call(self, S, "setPaused",
                                      <<BoolTok(entry = "pause")>>, 0)>>

\* The admin of I1, rotated to a2, unpaused the system with a direct call.
C36_Witness ==
    /\ last.to = "I1"
    /\ last.entry = "unpause"
    /\ last.ok
    /\ last.callees = <<S>>
    /\ impl["I1"].admin = "a2"
    /\ ~state.paused
    /\ Wired

====
